---------------------------- MODULE Spec2Model ----------------------------
(***************************************************************************)
(* Dataset conversion pipeline of the football player detection repository *)
(* (datasets/faster_split.py, the three-way chronological variant, and     *)
(* datasets/split.py, the shuffle / single-split variant).                 *)
(***************************************************************************)
EXTENDS Integers, Sequences, FiniteSets, TLC

(***************************************************************************)
(* State.                                                                  *)
(***************************************************************************)
VARIABLES
    \* SplitPlanner
    img_list,     \* sorted(img_dir.glob('*.jpg')): frame numbers, ascending
    rng42,        \* rng42[n]: the permutation random.seed(42); random.shuffle()
                  \* applies to a list of n elements
    split_pc,     \* "start", "chrono" (faster_split.py) or "shuffle" (split.py)
    train_imgs, valid_imgs, test_imgs,
    \* TrackClassResolver
    ID_MAPPINGS,          \* sequence-id -> dict class name -> list of track-ids
    REVERSE_ID_MAPPINGS,  \* sequence-id -> (track-id -> class name)
    res_pc,               \* "start", "fast" or "slow"
    res_args,             \* <<snmot_name, track_id>> of the lookup
    res_ret,              \* what the lookup returned
    \* AnnotationReader, FrameDimensionResolver, BoxNormalizer
    gt_lines,                \* f.readlines() of gt.txt: rows of fields
    image_dimensions_cache,  \* frame_id -> <<img_w, img_h>> or None
    annotations_by_frame,    \* frame_id -> list of label lines
    lbl_pc,                  \* "start", "fast", "slow" or "raised"
    imread_calls,            \* frame_id -> number of cv2.imread calls on its image
    \* DatasetMaterializer
    src_root,      \* SOURCE_DIR.is_dir()
    src_tree,      \* the directories of SOURCE_DIR: name -> its files (read only)
    io_faults,     \* how many more file operations of this run may fail
    ratios,        \* <<TRAIN_RATIO, VALID_RATIO, TEST_RATIO>> of the module
    rng_state,     \* the generator of random: its seed, the shuffles since
    out,           \* TARGET_DIR: [dirs, images, labels, meta]
    pc,            \* where main / process_sequence stands
    sequences,     \* main: the directories to walk
    seq_i,         \* main: index of the current directory
    snmot_name,    \* process_sequence: seq_path.name
    game_id,       \* process_sequence: read_game_id(gameinfo_path)
    img_i,         \* process_sequence: index of the loop over a subset
    cnt,           \* process_sequence: the counters
    log,           \* what was printed: one record per message of interest
    \* read_game_id
    gi_file,       \* the gameinfo.ini read_game_id is called on
    gi_pc,         \* "start", "faster" or "split": which read_game_id ran
    gi_ret,        \* how the call ended: [raised, value]
    \* a second run of main over the output tree of the first
    run_no,        \* 1 in the first run of the script, 2 in the second
    first_out,     \* TARGET_DIR as the first run left it
    \* two calls of process_sequence whose file operations interleave
    par            \* call -> [pc, seq, game_id, plan, todo, i]

splitVars == <<img_list, rng42, split_pc, train_imgs, valid_imgs, test_imgs>>
resolveVars == <<ID_MAPPINGS, REVERSE_ID_MAPPINGS, res_pc, res_args, res_ret>>
labelVars == <<gt_lines, image_dimensions_cache, annotations_by_frame, lbl_pc,
               imread_calls>>
pipeVars == <<src_root, src_tree, io_faults, ratios, rng_state, out, pc, sequences, seq_i, snmot_name,
              game_id, img_i, cnt, log>>
gameIdVars == <<gi_file, gi_pc, gi_ret>>
rerunVars == <<run_no, first_out>>
parVars == <<par>>
vars == <<splitVars, resolveVars, labelVars, pipeVars, gameIdVars, rerunVars, parVars>>

(***************************************************************************)
(* Bounds of the model.                                                    *)
(***************************************************************************)
\* largest number of frames of a sequence handed to the split planner
MaxSplitFrames == 100
\* largest list the seeded shuffle is enumerated for
MaxShuffleFrames == 5

(***************************************************************************)
(* IEEE-754 double arithmetic, as far as the split planner uses it:        *)
(* int(n * ratio) for a non-negative integer n and a double constant.      *)
(* Numbers are bit sequences, least significant bit first.                 *)
(***************************************************************************)
RECURSIVE NatToBits(_)
NatToBits(n) == IF n = 0 THEN <<>> ELSE <<n % 2>> \o NatToBits(n \div 2)

RECURSIVE BitsToNat(_)
BitsToNat(b) == IF b = <<>> THEN 0 ELSE Head(b) + 2 * BitsToNat(Tail(b))

RECURSIVE HexToBits(_)
\* h: hexadecimal digits, most significant first
HexToBits(h) ==
    IF h = <<>> THEN <<>>
    ELSE LET d == h[Len(h)]
         IN  <<d % 2, (d \div 2) % 2, (d \div 4) % 2, (d \div 8) % 2>>
                 \o HexToBits(SubSeq(h, 1, Len(h) - 1))

RECURSIVE StripBits(_)
\* drop the leading (most significant) zero bits
StripBits(b) ==
    IF b = <<>> THEN <<>>
    ELSE IF b[Len(b)] = 0 THEN StripBits(SubSeq(b, 1, Len(b) - 1)) ELSE b

RECURSIVE MulCarry(_, _, _)
MulCarry(b, n, c) ==
    IF b = <<>> THEN NatToBits(c)
    ELSE LET t == n * Head(b) + c
         IN  <<t % 2>> \o MulCarry(Tail(b), n, t \div 2)

RECURSIVE IncBits(_)
IncBits(b) ==
    IF b = <<>> THEN <<1>>
    ELSE IF Head(b) = 0 THEN <<1>> \o Tail(b) ELSE <<0>> \o IncBits(Tail(b))

\* a double: mant (hex digits of the 53-bit significand) * 2^exp
DoubleBits(d) == StripBits(HexToBits(d.mant))

\* the exact product n * d, rounded to 53 significant bits, ties to even:
\* [mant |-> bits, exp |-> e] with value mant * 2^e
FloatMulInt(n, d) ==
    LET p == StripBits(MulCarry(DoubleBits(d), n, 0))
        L == Len(p)
        s == L - 53
    IN  IF s <= 0 THEN [mant |-> p, exp |-> d.exp]
        ELSE LET kept   == SubSeq(p, s + 1, L)
                 guard  == p[s]
                 sticky == \E i \in 1..(s - 1) : p[i] = 1
                 up     == guard = 1 /\ (sticky \/ kept[1] = 1)
             IN  [mant |-> IF up THEN IncBits(kept) ELSE kept, exp |-> d.exp + s]

\* int(x) of a non-negative double below 2^31: truncation
IntOfFloat(x) ==
    IF x.exp >= 0 THEN BitsToNat(x.mant) * (2 ^ x.exp)
    ELSE IF -x.exp >= Len(x.mant) THEN 0
    ELSE BitsToNat(SubSeq(x.mant, 1 - x.exp, Len(x.mant)))

\* k zero bits
Zeros(k) == [i \in 1..k |-> 0]

RECURSIVE AddBits(_, _, _)
\* the sum of two bit sequences and a carry
AddBits(a, b, c) ==
    IF a = <<>> /\ b = <<>> THEN (IF c = 0 THEN <<>> ELSE <<1>>)
    ELSE LET x == IF a = <<>> THEN 0 ELSE Head(a)
             y == IF b = <<>> THEN 0 ELSE Head(b)
             t == x + y + c
         IN  <<t % 2>> \o AddBits(IF a = <<>> THEN <<>> ELSE Tail(a),
                                  IF b = <<>> THEN <<>> ELSE Tail(b), t \div 2)

\* a double given by hex digits, as [mant |-> bits, exp |-> e]
AsBits(d) == [mant |-> DoubleBits(d), exp |-> d.exp]

\* x + y of two non-negative doubles [mant |-> bits, exp |-> e]: the exact
\* sum rounded to 53 significant bits, ties to even
FloatAdd(x, y) ==
    LET e  == (IF x.exp < y.exp THEN x.exp ELSE y.exp)
        p  == StripBits(AddBits(Zeros(x.exp - e) \o x.mant,
                                Zeros(y.exp - e) \o y.mant, 0))
        L  == Len(p)
        s  == L - 53
    IN  IF s <= 0 THEN [mant |-> p, exp |-> e]
        ELSE LET kept   == SubSeq(p, s + 1, L)
                 guard  == p[s]
                 sticky == \E i \in 1..(s - 1) : p[i] = 1
                 up     == guard = 1 /\ (sticky \/ kept[1] = 1)
             IN  [mant |-> IF up THEN IncBits(kept) ELSE kept, exp |-> e + s]

\* x == 1.0 for a double [mant |-> bits, exp |-> e]
IsOne(x) ==
    LET L == Len(x.mant)
    IN  /\ L >= 1
        /\ x.mant[L] = 1
        /\ \A i \in 1..(L - 1) : x.mant[i] = 0
        /\ x.exp + L - 1 = 0

(***************************************************************************)
(* Configuration of faster_split.py and split.py.                          *)
(***************************************************************************)
\* 0.7 = 0x1.6666666666666p-1
TRAIN_RATIO == [mant |-> <<1, 6, 6, 6, 6, 6, 6, 6, 6, 6, 6, 6, 6, 6>>, exp |-> -53]
\* 0.1 = 0x1.999999999999ap-4
VALID_RATIO == [mant |-> <<1, 9, 9, 9, 9, 9, 9, 9, 9, 9, 9, 9, 9, 10>>, exp |-> -56]
\* 0.2 = 0x1.999999999999ap-3
TEST_RATIO  == [mant |-> <<1, 9, 9, 9, 9, 9, 9, 9, 9, 9, 9, 9, 9, 10>>, exp |-> -55]
\* split.py: the integer 1
SPLIT_RATIO == 1

\* TRAIN_RATIO + VALID_RATIO + TEST_RATIO == 1.0, the test of the assert
RatiosSumToOne(r) ==
    IsOne(FloatAdd(FloatAdd(AsBits(r[1]), AsBits(r[2])), AsBits(r[3])))

\* the ratios a run is tried with: those of the source, and the source's
\* with the test ratio 0.1, the valid ratio 0.2, the train ratio 0.1
RatioConfigs ==
    { <<TRAIN_RATIO, VALID_RATIO, TEST_RATIO>>,
      <<TRAIN_RATIO, VALID_RATIO, VALID_RATIO>>,
      <<TRAIN_RATIO, TEST_RATIO, TEST_RATIO>>,
      <<VALID_RATIO, VALID_RATIO, TEST_RATIO>> }

(***************************************************************************)
(* Python list helpers.                                                    *)
(***************************************************************************)
Min(a, b) == IF a < b THEN a ELSE b
Max(a, b) == IF a > b THEN a ELSE b

\* s[lo:hi] for 0 <= lo, 0 <= hi (Python clamps both to len(s))
PySlice(s, lo, hi) ==
    LET l == Min(lo, Len(s))
        h == Min(hi, Len(s))
    IN  IF h <= l THEN <<>> ELSE SubSeq(s, l + 1, h)

\* s[lo:]
PySliceFrom(s, lo) == PySlice(s, lo, Len(s))

Range(s) == {s[i] : i \in DOMAIN s}

\* the permutations of 1..n, as sequences
Perms(n) == {p \in [1..n -> 1..n] : \A i, j \in 1..n : p[i] = p[j] => i = j}

(***************************************************************************)
(* SplitPlanner.                                                           *)
(***************************************************************************)
\* mutant of ChronoPlan: the test slice starts one frame late
ChronoPlan_TestOffByOne(list) ==
    LET total_frames == Len(list)
        num_train == IntOfFloat(FloatMulInt(total_frames, TRAIN_RATIO))
        num_valid == IntOfFloat(FloatMulInt(total_frames, VALID_RATIO))
    IN  [num_train |-> num_train,
         num_valid |-> num_valid,
         num_test  |-> total_frames - num_train - num_valid,
         train |-> PySlice(list, 0, num_train),
         valid |-> PySlice(list, num_train, num_train + num_valid),
         test  |-> PySliceFrom(list, num_train + num_valid + 1)]

\* faster_split.py process_sequence: num_train, num_valid and the three slices
ChronoPlan(list) ==
    LET total_frames == Len(list)
        num_train == IntOfFloat(FloatMulInt(total_frames, TRAIN_RATIO))
        num_valid == IntOfFloat(FloatMulInt(total_frames, VALID_RATIO))
    IN  [num_train |-> num_train,
         num_valid |-> num_valid,
         num_test  |-> total_frames - num_train - num_valid,
         train |-> PySlice(list, 0, num_train),
         valid |-> PySlice(list, num_train, num_train + num_valid),
         test  |-> PySliceFrom(list, num_train + num_valid)]

\* random.seed(42); random.shuffle(list): the generator is re-seeded before
\* every shuffle, so the permutation depends on the length alone
Shuffle42(list, perm) == [i \in 1..Len(list) |-> list[perm[i]]]

\* split.py process_sequence: shuffle, split_idx and the two slices
ShufflePlan(list, perm) ==
    LET shuffled  == Shuffle42(list, perm)
        split_idx == Len(shuffled) * SPLIT_RATIO
    IN  [train |-> PySlice(shuffled, 0, split_idx),
         valid |-> PySliceFrom(shuffled, split_idx)]

\* the generator as the interpreter starts it: seeded from the system
OsSeeded == [seed |-> -1, used |-> <<>>]

\* mutant of random_seed: the generator is left as it is
random_seed_Noop(st, a) == st

\* random.seed(a)
random_seed(st, a) == [seed |-> a, used |-> <<>>]

\* the permutations random.shuffle can apply to a list of n elements when
\* the generator is st: rng42[n] right after random.seed(42), and no
\* permutation is excluded in any other state
ShufflePerms(st, n) ==
    IF st.seed = 42 /\ st.used = <<>> THEN {rng42[n]} ELSE Perms(n)

\* the generator after random.shuffle of a list of n elements (a list of
\* fewer than two elements draws nothing)
AfterShuffle(st, n) ==
    IF n < 2 THEN st ELSE [st EXCEPT !.used = Append(@, n)]

SplitStart ==
    /\ \E n \in 0..MaxSplitFrames :
          /\ img_list = [i \in 1..n |-> i]
          /\ rng42 \in (IF n <= MaxShuffleFrames THEN {(n :> p) : p \in Perms(n)}
                                                  ELSE {<<>>})
    /\ split_pc = "start"
    /\ train_imgs = <<>>
    /\ valid_imgs = <<>>
    /\ test_imgs = <<>>

ChronoSplit ==
    /\ split_pc = "start"
    /\ LET plan == ChronoPlan(img_list)
       IN  /\ train_imgs' = plan.train
           /\ valid_imgs' = plan.valid
           /\ test_imgs' = plan.test
    /\ split_pc' = "chrono"
    /\ UNCHANGED <<img_list, rng42>>
    /\ UNCHANGED <<resolveVars, labelVars, pipeVars, gameIdVars, rerunVars, parVars>>

ShuffleSplit ==
    /\ split_pc = "start"
    /\ Len(img_list) <= MaxShuffleFrames
    /\ LET plan == ShufflePlan(img_list, rng42[Len(img_list)])
       IN  /\ train_imgs' = plan.train
           /\ valid_imgs' = plan.valid
           /\ test_imgs' = <<>>
    /\ split_pc' = "shuffle"
    /\ UNCHANGED <<img_list, rng42>>
    /\ UNCHANGED <<resolveVars, labelVars, pipeVars, gameIdVars, rerunVars, parVars>>


\* C1 (split completeness): once either planner has run, every frame of the
\* sorted image list is in exactly one of the subsets: the subsets together
\* hold each frame exactly once and their sizes sum to the number of frames.
C1_SplitCompleteness ==
    split_pc # "start" =>
        LET all == train_imgs \o valid_imgs \o test_imgs
        IN  /\ Len(train_imgs) + Len(valid_imgs) + Len(test_imgs) = Len(img_list)
            /\ \A f \in Range(img_list) :
                  Cardinality({i \in DOMAIN all : all[i] = f}) = 1

C1_Witness ==
    /\ split_pc = "chrono"
    /\ Len(img_list) = 10
    /\ Len(train_imgs) = 7 /\ Len(valid_imgs) = 1 /\ Len(test_imgs) = 2

\* C10 (chronological layout): the chronological planner puts the first
\* floor(N * 0.7) frames in train, the next floor(N * 0.1) in valid and the
\* rest in test.
C10_ChronoLayout ==
    split_pc = "chrono" =>
        LET N  == Len(img_list)
            nt == (7 * N) \div 10
            nv == N \div 10
        IN  /\ train_imgs = SubSeq(img_list, 1, nt)
            /\ valid_imgs = SubSeq(img_list, nt + 1, nt + nv)
            /\ test_imgs = SubSeq(img_list, nt + nv + 1, N)

(***************************************************************************)
(* TrackClassResolver.                                                     *)
(***************************************************************************)
\* largest track-id the override tables of the resolver specification list
MaxTrackId == 3

CLASS_NAMES == <<"player", "goalkeeper", "referee", "ball">>

\* {name: i for i, name in enumerate(CLASS_NAMES)}
CLASS_MAP == [name \in Range(CLASS_NAMES) |->
                 (CHOOSE i \in DOMAIN CLASS_NAMES : CLASS_NAMES[i] = name) - 1]

class_priority_list == <<"player", "goalkeeper", "referee", "ball">>

\* reversed(list)
Reversed(s) == [i \in 1..Len(s) |-> s[Len(s) + 1 - i]]

\* a dict is a sequence of [key, val] items in insertion order
DictKeys(d) == {d[i].key : i \in DOMAIN d}
DictGet(d, k, default) ==
    IF k \in DictKeys(d)
    THEN d[CHOOSE i \in DOMAIN d : d[i].key = k].val
    ELSE default

RECURSIVE AssignIds(_, _, _)
\* for track_id in ids: if track_id not in reverse_map: reverse_map[track_id] = cls_name
AssignIds(reverse_map, ids, cls_name) ==
    IF ids = <<>> THEN reverse_map
    ELSE AssignIds(IF Head(ids) \in DOMAIN reverse_map
                   THEN reverse_map
                   ELSE reverse_map @@ (Head(ids) :> cls_name),
                   Tail(ids), cls_name)

RECURSIVE AssignClasses(_, _, _)
\* for cls_name in classes: ids = mapping.get(cls_name, []) ...
AssignClasses(reverse_map, classes, mapping) ==
    IF classes = <<>> THEN reverse_map
    ELSE AssignClasses(AssignIds(reverse_map, DictGet(mapping, Head(classes), <<>>),
                                 Head(classes)),
                       Tail(classes), mapping)

\* mutant of BuildReverseMap: the classes are walked lowest priority first
BuildReverseMap_LowestFirst(mapping) ==
    AssignClasses(<<>>, class_priority_list, mapping)

\* the loop body of faster_split.py lines 122-136 for one sequence
BuildReverseMap(mapping) ==
    AssignClasses(<<>>, Reversed(class_priority_list), mapping)

BuildReverseIdMappings(table) ==
    [snmot \in DOMAIN table |-> BuildReverseMap(table[snmot])]

\* mutant of get_class_from_track_id_fast: the default class is goalkeeper
get_class_from_track_id_fast_OtherDefault(rev, snmot, track_id) ==
    LET reverse_map == IF snmot \in DOMAIN rev THEN rev[snmot] ELSE <<>>
        cls_name == IF track_id \in DOMAIN reverse_map
                    THEN reverse_map[track_id] ELSE "goalkeeper"
    IN  CLASS_MAP[cls_name]

\* faster_split.py get_class_from_track_id_fast, over the reverse index rev
get_class_from_track_id_fast(rev, snmot, track_id) ==
    LET reverse_map == IF snmot \in DOMAIN rev THEN rev[snmot] ELSE <<>>
        cls_name == IF track_id \in DOMAIN reverse_map
                    THEN reverse_map[track_id] ELSE "player"
    IN  IF cls_name \in DOMAIN CLASS_MAP THEN CLASS_MAP[cls_name]
        ELSE CLASS_MAP["player"]

RECURSIVE FirstClassListing(_, _)
\* for cls_name, ids in mapping.items(): if track_id in ids: return cls_name
FirstClassListing(items, track_id) ==
    IF items = <<>> THEN "player"
    ELSE IF track_id \in Range(Head(items).val) THEN Head(items).key
    ELSE FirstClassListing(Tail(items), track_id)

\* split.py get_class_from_track_id, over the table
get_class_from_track_id(table, snmot, track_id) ==
    FirstClassListing(IF snmot \in DOMAIN table THEN table[snmot] ELSE <<>>,
                      track_id)

\* the ascending list of a set of track-ids
RECURSIVE SetToList(_)
SetToList(S) ==
    IF S = {} THEN <<>>
    ELSE LET m == CHOOSE x \in S : \A y \in S : x <= y
         IN  <<m>> \o SetToList(S \ {m})

TrackIds == 1..MaxTrackId

\* the tables the resolver is tried on: one sequence, the three keys of the
\* source's tables in the source's order, every choice of the id lists
ResolverTables ==
    {("SNMOT-066" :> << [key |-> "referee",    val |-> SetToList(r)],
                        [key |-> "ball",       val |-> SetToList(b)],
                        [key |-> "goalkeeper", val |-> SetToList(g)] >>) :
        r \in SUBSET TrackIds, b \in SUBSET TrackIds, g \in SUBSET TrackIds}

ResolveStart ==
    /\ ID_MAPPINGS \in ResolverTables
    /\ REVERSE_ID_MAPPINGS = BuildReverseIdMappings(ID_MAPPINGS)
    /\ res_pc = "start"
    /\ res_args = <<>>
    /\ res_ret = <<>>

LookupFast ==
    /\ res_pc = "start"
    /\ \E snmot \in {"SNMOT-066", "SNMOT-999"}, track_id \in 1..(MaxTrackId + 1) :
          /\ res_args' = <<snmot, track_id>>
          /\ res_ret' = get_class_from_track_id_fast(REVERSE_ID_MAPPINGS,
                                                     snmot, track_id)
    /\ res_pc' = "fast"
    /\ UNCHANGED <<ID_MAPPINGS, REVERSE_ID_MAPPINGS>>
    /\ UNCHANGED <<splitVars, labelVars, pipeVars, gameIdVars, rerunVars, parVars>>

LookupSlow ==
    /\ res_pc = "start"
    /\ \E snmot \in {"SNMOT-066", "SNMOT-999"}, track_id \in 1..(MaxTrackId + 1) :
          /\ res_args' = <<snmot, track_id>>
          /\ res_ret' = get_class_from_track_id(ID_MAPPINGS, snmot, track_id)
    /\ res_pc' = "slow"
    /\ UNCHANGED <<ID_MAPPINGS, REVERSE_ID_MAPPINGS>>
    /\ UNCHANGED <<splitVars, labelVars, pipeVars, gameIdVars, rerunVars, parVars>>

\* the classes of the table that list the track-id of the lookup
ListedUnder(table, snmot, track_id) ==
    IF snmot \notin DOMAIN table THEN {}
    ELSE {table[snmot][i].key : i \in
             {j \in DOMAIN table[snmot] :
                 track_id \in Range(table[snmot][j].val)}}

\* the class index that is highest in ball > referee > goalkeeper > player
HighestOf(classes) ==
    IF "ball" \in classes THEN 3
    ELSE IF "referee" \in classes THEN 2
    ELSE IF "goalkeeper" \in classes THEN 1
    ELSE 0

\* C13 (default class): a lookup of a track-id that no class list of its
\* sequence holds, or of any track-id of a sequence that is not in the table,
\* returns player: index 0 from get_class_from_track_id_fast, the name from
\* get_class_from_track_id.
C13_DefaultClass ==
    (res_pc \in {"fast", "slow"}
       /\ ListedUnder(ID_MAPPINGS, res_args[1], res_args[2]) = {})
    => IF res_pc = "fast" THEN res_ret = CLASS_MAP["player"] /\ res_ret = 0
       ELSE res_ret = "player"

\* a fast lookup in a sequence that is not in the table, of a track-id that
\* the table lists as ball for another sequence, has returned 0
C13_Witness ==
    /\ res_pc = "fast"
    /\ res_args[1] \notin DOMAIN ID_MAPPINGS
    /\ "ball" \in ListedUnder(ID_MAPPINGS, "SNMOT-066", res_args[2])
    /\ res_ret = 0

C22_ResolverEquivalence ==
    /\ res_pc = "fast" =>
           res_ret = CLASS_MAP[get_class_from_track_id(ID_MAPPINGS,
                                                       res_args[1], res_args[2])]
    /\ res_pc = "slow" =>
           CLASS_MAP[res_ret] =
               get_class_from_track_id_fast(REVERSE_ID_MAPPINGS,
                                            res_args[1], res_args[2])

(***************************************************************************)
(* AnnotationReader, FrameDimensionResolver, BoxNormalizer.                *)
(*                                                                         *)
(* A field of a gt.txt row is a token: an integer literal ("5"), a decimal *)
(* literal ("100.0", "0.0001") or text that is no number ("abc", "").      *)
(* Pixel quantities are counted in units of 10^-4 pixel; a normalized      *)
(* quantity is the exact rational num/den counted in millionths, and a     *)
(* "%.6f" field of a label line is the integer number of millionths.       *)
(***************************************************************************)
\* largest number of rows of a gt.txt of the label specification
MaxRows == 2

\* Python's None, where a pair <<img_w, img_h>> is expected
None == <<>>

UNIT == 10 ^ 4
MILLION == 10 ^ 6

IntTok(n) == [k |-> "int", v |-> n]
DecTok(units) == [k |-> "dec", v |-> units]
BadTok == [k |-> "bad", v |-> 0]

\* int(s): ValueError unless s is an integer literal
PyInt(tok) == [ok |-> tok.k = "int", v |-> tok.v]

\* float(s), in units: ValueError unless s is a number
PyFloat(tok) ==
    [ok |-> tok.k \in {"int", "dec"},
     v  |-> IF tok.k = "int" THEN tok.v * UNIT ELSE tok.v]

\* twice / (2 * UNIT) pixels divided by img pixels, in millionths
Ratio(twice, img) == [num |-> 50 * twice, den |-> img]

\* max(0.0, min(1.0, r))
Clamp01(r) ==
    LET m == IF r.num < MILLION * r.den THEN r ELSE [num |-> MILLION, den |-> 1]
    IN  IF m.num > 0 THEN m ELSE [num |-> 0, den |-> 1]

\* f"{r:.6f}": the nearest number of millionths, ties to even
Format6(r) ==
    LET q   == r.num \div r.den
        rem == r.num % r.den
    IN  IF 2 * rem < r.den THEN q
        ELSE IF 2 * rem > r.den THEN q + 1
        ELSE IF q % 2 = 0 THEN q ELSE q + 1

\* faster_split.py lines 200-207: the parsed row, or skip
ParseRowFast(parts) ==
    IF Len(parts) < 6 THEN [skip |-> TRUE]
    ELSE IF ~PyInt(parts[1]).ok \/ ~PyInt(parts[2]).ok THEN [skip |-> TRUE]
    ELSE IF \E i \in 3..6 : ~PyFloat(parts[i]).ok THEN [skip |-> TRUE]
    ELSE IF PyFloat(parts[5]).v <= 0 \/ PyFloat(parts[6]).v <= 0 THEN [skip |-> TRUE]
    ELSE [skip |-> FALSE,
          frame_id |-> PyInt(parts[1]).v, track_id |-> PyInt(parts[2]).v,
          x |-> PyFloat(parts[3]).v, y |-> PyFloat(parts[4]).v,
          w |-> PyFloat(parts[5]).v, h |-> PyFloat(parts[6]).v]

\* mutant of NormalizeClamped: the corner is taken for the centre
NormalizeClamped_Corner(x, y, w, h, img_w, img_h) ==
    [x_center |-> Clamp01(Ratio(2 * x, img_w)),
     y_center |-> Clamp01(Ratio(2 * y, img_h)),
     w_norm   |-> Clamp01(Ratio(2 * w, img_w)),
     h_norm   |-> Clamp01(Ratio(2 * h, img_h))]

\* faster_split.py lines 219-228: the clamped normalized box
NormalizeClamped(x, y, w, h, img_w, img_h) ==
    [x_center |-> Clamp01(Ratio(2 * x + w, img_w)),
     y_center |-> Clamp01(Ratio(2 * y + h, img_h)),
     w_norm   |-> Clamp01(Ratio(2 * w, img_w)),
     h_norm   |-> Clamp01(Ratio(2 * h, img_h))]

\* mutant of RowToLineFast: a frame without dimensions is taken as 1920x1080
RowToLineFast_DefaultDims(parts, cache, rev, snmot) ==
    LET row == ParseRowFast(parts)
    IN  IF row.skip THEN [skip |-> TRUE]
        ELSE LET known == row.frame_id \in DOMAIN cache /\ cache[row.frame_id] # None
                 dims == IF known THEN cache[row.frame_id] ELSE <<1920, 1080>>
                 box  == NormalizeClamped(row.x, row.y, row.w, row.h, dims[1], dims[2])
             IN  IF box.w_norm.num <= 0 \/ box.h_norm.num <= 0 THEN [skip |-> TRUE]
                 ELSE [skip |-> FALSE,
                       frame_id |-> row.frame_id,
                       line |-> <<get_class_from_track_id_fast(rev, snmot,
                                                               row.track_id),
                                  Format6(box.x_center), Format6(box.y_center),
                                  Format6(box.w_norm), Format6(box.h_norm)>>]

\* faster_split.py lines 199-238 for one line of gt.txt: the frame and the
\* label line it appends, or skip
RowToLineFast(parts, cache, rev, snmot) ==
    LET row == ParseRowFast(parts)
    IN  IF row.skip THEN [skip |-> TRUE]
        ELSE IF row.frame_id \notin DOMAIN cache THEN [skip |-> TRUE]
        ELSE IF cache[row.frame_id] = None THEN [skip |-> TRUE]
        ELSE LET dims == cache[row.frame_id]
                 box  == NormalizeClamped(row.x, row.y, row.w, row.h, dims[1], dims[2])
             IN  IF box.w_norm.num <= 0 \/ box.h_norm.num <= 0 THEN [skip |-> TRUE]
                 ELSE [skip |-> FALSE,
                       frame_id |-> row.frame_id,
                       line |-> <<get_class_from_track_id_fast(rev, snmot,
                                                               row.track_id),
                                  Format6(box.x_center), Format6(box.y_center),
                                  Format6(box.w_norm), Format6(box.h_norm)>>]

\* mutant of AppendLine: the line is put in front of the list
AppendLine_InFront(annotations, frame_id, line) ==
    IF frame_id \in DOMAIN annotations
    THEN [annotations EXCEPT ![frame_id] = <<line>> \o @]
    ELSE annotations @@ (frame_id :> <<line>>)

\* annotations[frame_id].append(line)
AppendLine(annotations, frame_id, line) ==
    IF frame_id \in DOMAIN annotations
    THEN [annotations EXCEPT ![frame_id] = Append(@, line)]
    ELSE annotations @@ (frame_id :> <<line>>)

RECURSIVE AnnotateFast(_, _, _, _, _)
\* the loop of faster_split.py lines 199-238 over the lines of gt.txt
AnnotateFast(annotations, lines, cache, rev, snmot) ==
    IF lines = <<>> THEN annotations
    ELSE LET r == RowToLineFast(Head(lines), cache, rev, snmot)
         IN  AnnotateFast(IF r.skip THEN annotations
                          ELSE AppendLine(annotations, r.frame_id, r.line),
                          Tail(lines), cache, rev, snmot)

\* split.py lines 118-143 for one line of gt.txt: the exception it raises,
\* skip, or the frame and the label line it appends
RowToLineSlow(parts, cache, table, snmot) ==
    IF Len(parts) < 6 THEN
        \* int(parts[0]) raises ValueError before parts[k] raises IndexError
        [raised |-> TRUE, skip |-> FALSE]
    ELSE IF ~PyInt(parts[1]).ok \/ ~PyInt(parts[2]).ok
               \/ \E i \in 3..6 : ~PyFloat(parts[i]).ok THEN
        [raised |-> TRUE, skip |-> FALSE]
    ELSE LET frame_id == PyInt(parts[1]).v
             track_id == PyInt(parts[2]).v
             x == PyFloat(parts[3]).v
             y == PyFloat(parts[4]).v
             w == PyFloat(parts[5]).v
             h == PyFloat(parts[6]).v
         IN  IF frame_id \notin DOMAIN cache THEN [raised |-> FALSE, skip |-> TRUE]
             ELSE IF cache[frame_id] = None THEN [raised |-> FALSE, skip |-> TRUE]
             ELSE LET img_w == cache[frame_id][1]
                      img_h == cache[frame_id][2]
                      cls == get_class_from_track_id(table, snmot, track_id)
                  IN  [raised |-> FALSE, skip |-> FALSE,
                       frame_id |-> frame_id,
                       line |-> <<CLASS_MAP[cls],
                                  Format6(Ratio(2 * x + w, img_w)),
                                  Format6(Ratio(2 * y + h, img_h)),
                                  Format6(Ratio(2 * w, img_w)),
                                  Format6(Ratio(2 * h, img_h))>>]

RECURSIVE AnnotateSlow(_, _, _, _, _)
\* the loop of split.py lines 117-143: the annotations, or raised when a row
\* raised (nothing is caught, so the exception leaves the function)
AnnotateSlow(annotations, lines, cache, table, snmot) ==
    IF lines = <<>> THEN [raised |-> FALSE, annotations |-> annotations]
    ELSE LET r == RowToLineSlow(Head(lines), cache, table, snmot)
         IN  IF r.raised THEN [raised |-> TRUE, annotations |-> <<>>]
             ELSE AnnotateSlow(IF r.skip THEN annotations
                               ELSE AppendLine(annotations, r.frame_id, r.line),
                               Tail(lines), cache, table, snmot)

\* one call of cv2.imread on the image of a frame
ImreadCounted(calls, frame_id) ==
    IF frame_id \in DOMAIN calls THEN [calls EXCEPT ![frame_id] = @ + 1]
    ELSE calls @@ (frame_id :> 1)

RECURSIVE BuildCacheReads(_, _)
\* faster_split.py lines 184-196: the loop over img_paths reads every image
BuildCacheReads(calls, img_paths) ==
    IF img_paths = <<>> THEN calls
    ELSE BuildCacheReads(ImreadCounted(calls, Head(img_paths)), Tail(img_paths))

\* mutant of RowLookupFast: a row reads the image of its frame again
RowLookupFast_ReadAgain(calls, cache, frame_id) ==
    IF frame_id \in DOMAIN cache THEN ImreadCounted(calls, frame_id) ELSE calls

\* faster_split.py line 210: image_dimensions_cache.get(frame_id) reads no image
RowLookupFast(calls, cache, frame_id) == calls

RECURSIVE ReadsFast(_, _, _)
\* the cv2.imread calls of the loop of faster_split.py lines 199-238
ReadsFast(calls, lines, cache) ==
    IF lines = <<>> THEN calls
    ELSE LET row == ParseRowFast(Head(lines))
         IN  ReadsFast(IF row.skip THEN calls
                       ELSE RowLookupFast(calls, cache, row.frame_id),
                       Tail(lines), cache)

\* split.py lines 122-128: os.path.exists(img_path), then cv2.imread(img_path)
RowLookupSlow(calls, cache, frame_id) ==
    IF frame_id \in DOMAIN cache THEN ImreadCounted(calls, frame_id) ELSE calls

RECURSIVE ReadsSlow(_, _, _, _, _)
\* the cv2.imread calls of the loop of split.py lines 117-143, up to the
\* row that raises
ReadsSlow(calls, lines, cache, table, snmot) ==
    IF lines = <<>> THEN calls
    ELSE IF RowToLineSlow(Head(lines), cache, table, snmot).raised THEN calls
    ELSE ReadsSlow(RowLookupSlow(calls, cache, PyInt(Head(lines)[1]).v),
                   Tail(lines), cache, table, snmot)

\* the entries of faster_split.py ID_MAPPINGS the model keeps
FASTER_ID_MAPPINGS ==
    ("SNMOT-060" :> << [key |-> "referee",    val |-> <<14, 17, 26>>],
                       [key |-> "ball",       val |-> <<18>>],
                       [key |-> "goalkeeper", val |-> <<22, 25>>] >>)
    @@
    ("SNMOT-066" :> << [key |-> "referee",    val |-> <<1, 5, 25>>],
                       [key |-> "ball",       val |-> <<24>>],
                       [key |-> "goalkeeper", val |-> <<24>>] >>)

\* rows of a gt.txt (frame_id,track_id,x,y,w,h[,...]) the label
\* specification draws from
GtRows ==
    { \* 5,7,100.0,200.0,50.0,80.0
      <<IntTok(5), IntTok(7), DecTok(100 * UNIT), DecTok(200 * UNIT),
        DecTok(50 * UNIT), DecTok(80 * UNIT)>>,
      \* 5,18,990,10,50,20: the ball, past the right edge of a 1000 px frame
      <<IntTok(5), IntTok(18), IntTok(990), IntTok(10), IntTok(50), IntTok(20)>>,
      \* 5,22,-30.0,480.0,20.0,60.0: a goalkeeper, past the left and lower edge
      <<IntTok(5), IntTok(22), DecTok(-30 * UNIT), DecTok(480 * UNIT),
        DecTok(20 * UNIT), DecTok(60 * UNIT)>>,
      \* 5,14,0,0,1200,600,1,-1,-1,-1: a referee, wider and higher than the frame
      <<IntTok(5), IntTok(14), IntTok(0), IntTok(0), IntTok(1200), IntTok(600),
        IntTok(1), IntTok(-1), IntTok(-1), IntTok(-1)>>,
      \* 5,7,10.0,10.0,0.0001,5.0: a sliver
      <<IntTok(5), IntTok(7), DecTok(10 * UNIT), DecTok(10 * UNIT),
        DecTok(1), DecTok(5 * UNIT)>>,
      \* 5,7,100,200,0,80
      <<IntTok(5), IntTok(7), IntTok(100), IntTok(200), IntTok(0), IntTok(80)>>,
      \* 5,7,100,200,50,-80.0
      <<IntTok(5), IntTok(7), IntTok(100), IntTok(200), IntTok(50),
        DecTok(-80 * UNIT)>>,
      \* 5,7,100,200,50
      <<IntTok(5), IntTok(7), IntTok(100), IntTok(200), IntTok(50)>>,
      \* an empty line
      <<BadTok>>,
      \* x,7,100,200,50,80
      <<BadTok, IntTok(7), IntTok(100), IntTok(200), IntTok(50), IntTok(80)>>,
      \* 5,7.0,100,200,50,80
      <<IntTok(5), DecTok(7 * UNIT), IntTok(100), IntTok(200), IntTok(50),
        IntTok(80)>>,
      \* 5,7,100,abc,50,80
      <<IntTok(5), IntTok(7), IntTok(100), BadTok, IntTok(50), IntTok(80)>>,
      \* 6,7,100,200,50,80: a row of frame 6
      <<IntTok(6), IntTok(7), IntTok(100), IntTok(200), IntTok(50), IntTok(80)>> }

RECURSIVE SeqsUpTo(_, _)
\* the sequences over S of length at most n
SeqsUpTo(S, n) ==
    IF n = 0 THEN {<<>>}
    ELSE LET shorter == SeqsUpTo(S, n - 1)
         IN  shorter \cup {Append(s, x) : s \in {q \in shorter : Len(q) = n - 1}, x \in S}

\* what the dimension cache holds after the pass over img1 with 000005.jpg,
\* and with an undecodable 000005.jpg beside 000006.jpg
FrameCaches ==
    {(5 :> <<1000, 500>>), (5 :> <<1920, 1080>>), (5 :> None),
     (5 :> None) @@ (6 :> <<1000, 500>>)}

LabelStart ==
    /\ gt_lines \in SeqsUpTo(GtRows, MaxRows)
    /\ image_dimensions_cache \in FrameCaches
    /\ annotations_by_frame = <<>>
    /\ lbl_pc = "start"
    /\ imread_calls = <<>>

\* faster_split.py generate_yolo_labels_all_frames, pass 1 over gt.txt
GenerateFast ==
    /\ lbl_pc = "start"
    /\ annotations_by_frame' = AnnotateFast(<<>>, gt_lines, image_dimensions_cache,
                                            REVERSE_ID_MAPPINGS, "SNMOT-060")
    /\ imread_calls' = ReadsFast(BuildCacheReads(<<>>,
                                     SetToList(DOMAIN image_dimensions_cache)),
                                 gt_lines, image_dimensions_cache)
    /\ lbl_pc' = "fast"
    /\ UNCHANGED <<gt_lines, image_dimensions_cache>>
    /\ UNCHANGED <<splitVars, resolveVars, pipeVars, gameIdVars, rerunVars, parVars>>

\* split.py convert_gt_to_yolo_format, the loop over gt.txt
ConvertSlow ==
    /\ lbl_pc = "start"
    /\ LET a == AnnotateSlow(<<>>, gt_lines, image_dimensions_cache,
                             ID_MAPPINGS, "SNMOT-060")
       IN  /\ annotations_by_frame' = a.annotations
           /\ lbl_pc' = (IF a.raised THEN "raised" ELSE "slow")
    /\ imread_calls' = ReadsSlow(<<>>, gt_lines, image_dimensions_cache,
                                 ID_MAPPINGS, "SNMOT-060")
    /\ UNCHANGED <<gt_lines, image_dimensions_cache>>
    /\ UNCHANGED <<splitVars, resolveVars, pipeVars, gameIdVars, rerunVars, parVars>>

\* the row is valid: at least 6 fields, two integers, four numbers, w > 0, h > 0
ValidRow(parts) ==
    /\ Len(parts) >= 6
    /\ parts[1].k = "int" /\ parts[2].k = "int"
    /\ \A i \in 3..6 : parts[i].k \in {"int", "dec"}
    /\ PyFloat(parts[5]).v > 0 /\ PyFloat(parts[6]).v > 0

\* the frame of the row has an image whose dimensions are known
HasDims(parts) ==
    /\ parts[1].v \in DOMAIN image_dimensions_cache
    /\ image_dimensions_cache[parts[1].v] # None

\* all label lines of the run
AllLines ==
    UNION {Range(annotations_by_frame[f]) : f \in DOMAIN annotations_by_frame}

\* the number of label lines of the run
RECURSIVE SumLens(_, _)
SumLens(a, frames) ==
    IF frames = {} THEN 0
    ELSE LET f == CHOOSE x \in frames : TRUE
         IN  Len(a[f]) + SumLens(a, frames \ {f})

LineCount == SumLens(annotations_by_frame, DOMAIN annotations_by_frame)

\* m millionths is the "%.6f" rendering of clamp(twice / (2 * UNIT * img), 0, 1)
IsClampedRatio(m, twice, img) ==
    IF twice <= 0 THEN m = 0
    ELSE IF twice >= 2 * UNIT * img THEN m = MILLION
    ELSE /\ 2 * (m * img - 50 * twice) <= img
         /\ 2 * (50 * twice - m * img) <= img

\* C5 (normalization bounds): every label line either script produces has a
\* class id in 0..3 and cx, cy, w, h within [0, 1].
C5_NormalizationBounds ==
    \A line \in AllLines :
        /\ line[1] \in 0..3
        /\ \A i \in 2..5 : 0 <= line[i] /\ line[i] <= MILLION

\* C7 (box normalization result): after the fast generator ran, every valid
\* row whose frame has dimensions (W, H) has its label line in the frame's
\* list: the resolved class, then clamp((x+w/2)/W), clamp((y+h/2)/H),
\* clamp(w/W), clamp(h/H) to six decimals; no other line is there; row
\* 5,7,100.0,200.0,50.0,80.0 in a 1000x500 frame gives 0 0.125 0.48 0.05 0.16.
C7_BoxNormalization ==
    lbl_pc = "fast" =>
        /\ \A i \in DOMAIN gt_lines :
              LET parts == gt_lines[i]
              IN  (ValidRow(parts) /\ HasDims(parts)) =>
                    LET dims == image_dimensions_cache[parts[1].v]
                        x == PyFloat(parts[3]).v
                        y == PyFloat(parts[4]).v
                        w == PyFloat(parts[5]).v
                        h == PyFloat(parts[6]).v
                        cls == HighestOf(ListedUnder(ID_MAPPINGS, "SNMOT-060",
                                                     parts[2].v))
                    IN  /\ parts[1].v \in DOMAIN annotations_by_frame
                        /\ \E line \in Range(annotations_by_frame[parts[1].v]) :
                              /\ line[1] = cls
                              /\ IsClampedRatio(line[2], 2 * x + w, dims[1])
                              /\ IsClampedRatio(line[3], 2 * y + h, dims[2])
                              /\ IsClampedRatio(line[4], 2 * w, dims[1])
                              /\ IsClampedRatio(line[5], 2 * h, dims[2])
                        /\ (parts = <<IntTok(5), IntTok(7), DecTok(100 * UNIT),
                                      DecTok(200 * UNIT), DecTok(50 * UNIT),
                                      DecTok(80 * UNIT)>>
                              /\ dims = <<1000, 500>>)
                           => <<0, 125000, 480000, 50000, 160000>>
                                 \in Range(annotations_by_frame[5])
        /\ LineCount = Cardinality({i \in DOMAIN gt_lines :
                                       ValidRow(gt_lines[i]) /\ HasDims(gt_lines[i])})

C7_Witness ==
    /\ lbl_pc = "fast"
    /\ image_dimensions_cache = (5 :> <<1000, 500>>)
    /\ 5 \in DOMAIN annotations_by_frame
    /\ annotations_by_frame[5] = << <<0, 125000, 480000, 50000, 160000>>,
                                    <<3, MILLION, 40000, 50000, 40000>> >>

\* C8 (row validity): either script, run over a gt.txt, ends without raising
\* and has produced exactly one label line for every valid row whose frame
\* has dimensions, and none for any other row.
C8_RowValidity ==
    lbl_pc # "start" =>
        /\ lbl_pc # "raised"
        /\ LineCount = Cardinality({i \in DOMAIN gt_lines :
                                       ValidRow(gt_lines[i]) /\ HasDims(gt_lines[i])})

\* the rows of gt.txt that are valid rows of frame f
ValidRowsOf(f) ==
    {i \in DOMAIN gt_lines : ValidRow(gt_lines[i]) /\ gt_lines[i][1].v = f}

\* C15 (unavailable frame dimensions): after the fast generator ran, no
\* frame whose image is absent or undecodable has a label line, and every
\* frame with known dimensions has one label line per valid row of it.
C15_UnavailableDimensions ==
    lbl_pc = "fast" =>
        /\ \A f \in DOMAIN annotations_by_frame :
              f \in DOMAIN image_dimensions_cache
                 /\ image_dimensions_cache[f] # None
        /\ \A f \in DOMAIN image_dimensions_cache :
              image_dimensions_cache[f] # None =>
                 Cardinality(ValidRowsOf(f)) =
                    (IF f \in DOMAIN annotations_by_frame
                     THEN Len(annotations_by_frame[f]) ELSE 0)

\* 000005.jpg is undecodable, gt.txt has a valid row of frame 5 and one of
\* frame 6, and only frame 6 has a label line
C15_Witness ==
    /\ lbl_pc = "fast"
    /\ image_dimensions_cache = (5 :> None) @@ (6 :> <<1000, 500>>)
    /\ ValidRowsOf(5) # {} /\ ValidRowsOf(6) # {}
    /\ DOMAIN annotations_by_frame = {6}

\* C26 (decode once): when generate_yolo_labels_all_frames has run, the
\* image of every frame of the image directory was decoded once, and no
\* image was decoded a second time, however many rows of gt.txt name the
\* frame and whether or not the decode gave dimensions.
C26_DecodeOnce ==
    lbl_pc = "fast" =>
        /\ DOMAIN imread_calls = DOMAIN image_dimensions_cache
        /\ \A f \in DOMAIN imread_calls : imread_calls[f] = 1

\* two valid rows of gt.txt name frame 5, whose image did not decode, and
\* the image was read once
C26_Witness ==
    /\ lbl_pc = "fast"
    /\ image_dimensions_cache[5] = None
    /\ Cardinality(ValidRowsOf(5)) >= 2
    /\ imread_calls[5] = 1

\* C9 (degenerate-box exclusion): no label line the fast generator produces
\* has a width or height field of 0.
C9_NoDegenerateBox ==
    lbl_pc = "fast" => \A line \in AllLines : line[4] # 0 /\ line[5] # 0

(***************************************************************************)
(* DatasetMaterializer: faster_split.py main and process_sequence.         *)
(*                                                                         *)
(* A frame image of a sequence is the file <frame:06d>.jpg of its img1     *)
(* directory and is named by its frame number.  A line of gameinfo.ini is  *)
(* the sequence of its parts between "=" signs.  A path of the output tree *)
(* is <<game_id, split, file name>>, in the images or the labels map; the  *)
(* content of an image is <<sequence, frame>> of the image it copies.      *)
(***************************************************************************)
\* largest number of frames of a sequence of the pipeline specifications
MaxFrames == 10

\* f"{n:06d}", 0 <= n
Pad6(n) ==
    IF n < 10 THEN "00000" \o ToString(n)
    ELSE IF n < 100 THEN "0000" \o ToString(n)
    ELSE IF n < 1000 THEN "000" \o ToString(n)
    ELSE IF n < 10000 THEN "00" \o ToString(n)
    ELSE IF n < 100000 THEN "0" \o ToString(n)
    ELSE ToString(n)

\* img_path.name and img_path.stem of the image of a frame
ImgFileName(frame) == Pad6(frame) \o ".jpg"
ImgStem(frame) == Pad6(frame)

\* f"{snmot_name}_{img_path.name}"
PrefixedImgName(snmot, frame) == snmot \o "_" \o ImgFileName(frame)

\* f"{snmot_name}_{frame_id:06d}.txt" (generate_yolo_labels_all_frames)
PrefixedLabelName(snmot, frame_id) == snmot \o "_" \o Pad6(frame_id) \o ".txt"

\* f"{snmot_name}_{original_label_stem}.txt" (process_sequence)
LabelNameOfImage(snmot, frame) == snmot \o "_" \o ImgStem(frame) \o ".txt"

\* d[k] = v and del d[k] on a map
Put(d, k, v) == [x \in (DOMAIN d) \cup {k} |-> IF x = k THEN v ELSE d[x]]
Remove(d, k) == [x \in (DOMAIN d) \ {k} |-> d[x]]

\* the size of every frame image
FrameDims == <<1000, 500>>

RECURSIVE FirstGameId(_)
\* for line in f: if line.startswith("gameID="): return line.strip().split("=")[1]
FirstGameId(lines) ==
    IF lines = <<>> THEN "unknown"
    ELSE IF Len(Head(lines)) >= 2 /\ Head(lines)[1] = "gameID" THEN Head(lines)[2]
    ELSE FirstGameId(Tail(lines))

\* how a call ends: with a return value, or with an exception
Returns(v) == [raised |-> "", value |-> v]
Raises(e) == [raised |-> e, value |-> ""]

\* the exception of open(path, 'r') ("" when the file opens)
OpenError(file) ==
    IF ~file.exists THEN "FileNotFoundError"
    ELSE IF ~file.readable THEN "PermissionError"
    ELSE ""

\* split.py read_game_id, and the body of the try of faster_split.py's
ScanGameId(file) ==
    IF OpenError(file) # "" THEN Raises(OpenError(file))
    ELSE Returns(FirstGameId(file.lines))

\* faster_split.py read_game_id: try ... except FileNotFoundError
TryReadGameId(file) ==
    IF ScanGameId(file).raised = "FileNotFoundError" THEN Returns("unknown")
    ELSE ScanGameId(file)

\* faster_split.py read_game_id, as process_sequence uses it
read_game_id(gameinfo) == TryReadGameId(gameinfo).value

\* the directory names of the model, in sorted order
DirNames == <<"SNMOT-060", "SNMOT-066", "SNMOT-999">>

\* sorted([d for d in SOURCE_DIR.iterdir() if d.is_dir()])
SortedDirs(tree) == SelectSeq(DirNames, LAMBDA d : d \in DOMAIN tree)

\* a row frame,track,100,200,50,80 and a row frame,track,100,200,0,80
GoodRow(frame, track) ==
    <<IntTok(frame), IntTok(track), IntTok(100), IntTok(200), IntTok(50), IntTok(80)>>
ZeroWidthRow(frame, track) ==
    <<IntTok(frame), IntTok(track), IntTok(100), IntTok(200), IntTok(0), IntTok(80)>>

GameInfo(lines) == [exists |-> TRUE, readable |-> TRUE, lines |-> lines]
NoFile == [exists |-> FALSE, readable |-> FALSE, lines |-> <<>>]
ImgDir(frames, undecodable) ==
    [exists |-> TRUE, frames |-> frames, undecodable |-> undecodable]
NoDir == [exists |-> FALSE, frames |-> {}, undecodable |-> {}]

WithGameId == GameInfo(<< <<"[Sequence]">>, <<"gameID", "4">>, <<"num_tracklets", "26">> >>)
WithoutGameId == GameInfo(<< <<"[Sequence]">>, <<"num_tracklets", "26">> >>)

\* a gt.txt with one good row for every frame
FullGt(n) == [exists |-> TRUE, lines |-> [f \in 1..n |-> GoodRow(f, 24)]]
\* a gt.txt with rows for the first and the last frame, a row of width 0 and
\* a row of a frame that has no image
SparseGt(n) ==
    [exists |-> TRUE,
     lines |-> <<GoodRow(1, 7), ZeroWidthRow(1, 7), GoodRow(n, 18), GoodRow(n, 7),
                 GoodRow(n + 1, 7)>>]
EmptyGt == [exists |-> TRUE, lines |-> <<>>]

\* the sequence directories the pipeline is run on
SeqProfiles ==
    { [gameinfo |-> NoFile, gt |-> FullGt(2), img1 |-> ImgDir(1..2, {})],
      [gameinfo |-> WithGameId, gt |-> NoFile, img1 |-> ImgDir(1..2, {})],
      [gameinfo |-> WithGameId, gt |-> FullGt(2), img1 |-> NoDir],
      [gameinfo |-> WithGameId, gt |-> FullGt(2), img1 |-> ImgDir({}, {})],
      [gameinfo |-> WithoutGameId, gt |-> FullGt(2), img1 |-> ImgDir(1..2, {})] }
    \cup
    { [gameinfo |-> WithGameId, gt |-> g, img1 |-> ImgDir(1..n, {})] :
        n \in 1..MaxFrames, g \in {EmptyGt} }
    \cup
    UNION { { [gameinfo |-> WithGameId, gt |-> FullGt(n), img1 |-> ImgDir(1..n, {})],
              [gameinfo |-> WithGameId, gt |-> FullGt(n), img1 |-> ImgDir(1..n, {n})],
              [gameinfo |-> WithGameId, gt |-> SparseGt(n), img1 |-> ImgDir(1..n, {})] } :
            n \in 1..MaxFrames }

\* a directory that is no key of ID_MAPPINGS
OtherDir == [gameinfo |-> WithGameId, gt |-> FullGt(1), img1 |-> ImgDir(1..1, {})]

EmptyTree == [dirs |-> {}, images |-> <<>>, labels |-> <<>>, meta |-> <<>>]

ZeroCounters ==
    [num_generated_labels |-> 0, copied_train_images |-> 0, copied_valid_images |-> 0,
     copied_test_images |-> 0, moved_valid_labels |-> 0, moved_test_labels |-> 0]

PipeStart ==
    /\ src_root \in BOOLEAN
    /\ IF src_root
       THEN \E a \in SeqProfiles, b \in SeqProfiles :
               src_tree = ("SNMOT-060" :> a) @@ ("SNMOT-066" :> b)
                             @@ ("SNMOT-999" :> OtherDir)
       ELSE src_tree = <<>>
    /\ io_faults = 0
    /\ rng_state = OsSeeded
    /\ ratios \in RatioConfigs
    /\ out = EmptyTree
    /\ pc = "import"
    /\ sequences = <<>>
    /\ seq_i = 0
    /\ snmot_name = ""
    /\ game_id = ""
    /\ img_i = 0
    /\ cnt = ZeroCounters
    /\ log = <<>>
    /\ img_list = <<>> /\ rng42 = <<>> /\ split_pc = "idle"
    /\ train_imgs = <<>> /\ valid_imgs = <<>> /\ test_imgs = <<>>

\* largest number of file operations that fail in a run
MaxFaults == 2

\* the sequence directories a run with failing file operations is tried on
FaultProfiles ==
    { [gameinfo |-> WithGameId, gt |-> FullGt(MaxFrames),
       img1 |-> ImgDir(1..MaxFrames, {})],
      [gameinfo |-> WithGameId, gt |-> SparseGt(MaxFrames),
       img1 |-> ImgDir(1..MaxFrames, {})],
      [gameinfo |-> WithGameId, gt |-> FullGt(2), img1 |-> ImgDir(1..2, {})] }

\* a run of faster_split.py in which up to MaxFaults file operations fail
FaultStart ==
    /\ src_root = TRUE
    /\ \E a \in FaultProfiles : src_tree = ("SNMOT-060" :> a)
    /\ io_faults \in 1..MaxFaults
    /\ ratios = <<TRAIN_RATIO, VALID_RATIO, TEST_RATIO>>
    /\ rng_state = OsSeeded
    /\ out = EmptyTree
    /\ pc = "import"
    /\ sequences = <<>>
    /\ seq_i = 0
    /\ snmot_name = ""
    /\ game_id = ""
    /\ img_i = 0
    /\ cnt = ZeroCounters
    /\ log = <<>>
    /\ img_list = <<>> /\ rng42 = <<>> /\ split_pc = "idle"
    /\ train_imgs = <<>> /\ valid_imgs = <<>> /\ test_imgs = <<>>

\* whether a file operation succeeds ({TRUE} when no more may fail)
IoOutcomes == IF io_faults > 0 THEN {TRUE, FALSE} ELSE {TRUE}

\* 1 for a failed file operation
Failed(ok) == IF ok THEN 0 ELSE 1

\* mutant of Counted: the counter is incremented whether or not the file
\* operation succeeded
Counted_Always(n, ok) == n + 1

\* counter += 1 after the file operation, inside its try
Counted(n, ok) == IF ok THEN n + 1 ELSE n

pipeRest == <<src_root, ratios, rng_state, rng42, split_pc>>
pipeFixed == <<pipeRest, src_tree>>
pipeConst == <<pipeFixed, io_faults>>

\* mutant of ModuleLoad: the module has no assert on the ratios
ModuleLoad_NoAssert ==
    /\ pc = "import"
    /\ pc' = "main"
    /\ UNCHANGED <<out, sequences, seq_i, snmot_name, game_id, img_i, cnt, log>>
    /\ UNCHANGED <<img_list, train_imgs, valid_imgs, test_imgs>>
    /\ UNCHANGED <<pipeConst, resolveVars, labelVars, gameIdVars, rerunVars, parVars>>

\* the module body, lines 14-18: the assert on the ratios raises
\* AssertionError before main is called, or the script goes on to main
ModuleLoad ==
    /\ pc = "import"
    /\ pc' = (IF RatiosSumToOne(ratios) THEN "main" ELSE "raised")
    /\ UNCHANGED <<out, sequences, seq_i, snmot_name, game_id, img_i, cnt, log>>
    /\ UNCHANGED <<img_list, train_imgs, valid_imgs, test_imgs>>
    /\ UNCHANGED <<pipeConst, resolveVars, labelVars, gameIdVars, rerunVars, parVars>>

\* main, lines 409-427: create TARGET_DIR, list the sequence directories
MainStart ==
    /\ pc = "main"
    /\ out' = [out EXCEPT !.dirs = @ \cup {<<>>}]
    /\ IF ~src_root
       THEN /\ log' = Append(log, [event |-> "no_source", seq |-> ""])
            /\ pc' = "exit"
            /\ UNCHANGED <<sequences, seq_i>>
       ELSE /\ sequences' = SortedDirs(src_tree)
            /\ seq_i' = 1
            /\ pc' = (IF SortedDirs(src_tree) = <<>> THEN "exit" ELSE "loop")
            /\ log' = log
    /\ UNCHANGED <<snmot_name, game_id, img_i, cnt>>
    /\ UNCHANGED <<img_list, train_imgs, valid_imgs, test_imgs>>
    /\ UNCHANGED <<pipeConst, resolveVars, labelVars, gameIdVars, rerunVars, parVars>>

\* mutant of MainLoop: every directory is handed to process_sequence
MainLoop_NoFilter ==
    /\ pc = "loop"
    /\ IF seq_i > Len(sequences)
       THEN /\ pc' = "exit"
            /\ UNCHANGED <<seq_i, snmot_name, log>>
       ELSE /\ snmot_name' = sequences[seq_i]
            /\ pc' = "ps_check"
            /\ UNCHANGED <<seq_i, log>>
    /\ UNCHANGED <<out, sequences, game_id, img_i, cnt>>
    /\ UNCHANGED <<img_list, train_imgs, valid_imgs, test_imgs>>
    /\ UNCHANGED <<pipeConst, resolveVars, labelVars, gameIdVars, rerunVars, parVars>>

\* main, lines 429-439: the next directory, filtered by ID_MAPPINGS
MainLoop ==
    /\ pc = "loop"
    /\ IF seq_i > Len(sequences)
       THEN /\ pc' = "exit"
            /\ UNCHANGED <<seq_i, snmot_name, log>>
       ELSE IF sequences[seq_i] \notin DOMAIN ID_MAPPINGS
       THEN /\ log' = Append(log, [event |-> "not_in_mappings",
                                   seq |-> sequences[seq_i]])
            /\ seq_i' = seq_i + 1
            /\ UNCHANGED <<pc, snmot_name>>
       ELSE /\ snmot_name' = sequences[seq_i]
            /\ pc' = "ps_check"
            /\ UNCHANGED <<seq_i, log>>
    /\ UNCHANGED <<out, sequences, game_id, img_i, cnt>>
    /\ UNCHANGED <<img_list, train_imgs, valid_imgs, test_imgs>>
    /\ UNCHANGED <<pipeConst, resolveVars, labelVars, gameIdVars, rerunVars, parVars>>

\* main, line 436: process_sequence returned
MainReturn ==
    /\ pc = "returned"
    /\ seq_i' = seq_i + 1
    /\ pc' = "loop"
    /\ UNCHANGED <<out, sequences, snmot_name, game_id, img_i, cnt, log>>
    /\ UNCHANGED <<img_list, train_imgs, valid_imgs, test_imgs>>
    /\ UNCHANGED <<pipeConst, resolveVars, labelVars, gameIdVars, rerunVars, parVars>>

\* process_sequence, lines 264-274: the basic checks
PsCheck ==
    /\ pc = "ps_check"
    /\ LET s == src_tree[snmot_name]
           missing == IF ~s.gameinfo.exists THEN "skip_no_gameinfo"
                      ELSE IF ~s.gt.exists THEN "skip_no_gt"
                      ELSE IF ~s.img1.exists THEN "skip_no_img1"
                      ELSE ""
       IN  IF missing # ""
           THEN /\ log' = Append(log, [event |-> missing, seq |-> snmot_name])
                /\ pc' = "returned"
           ELSE /\ log' = log
                /\ pc' = "ps_setup"
    /\ UNCHANGED <<out, sequences, seq_i, snmot_name, game_id, img_i, cnt>>
    /\ UNCHANGED <<img_list, train_imgs, valid_imgs, test_imgs>>
    /\ UNCHANGED <<pipeConst, resolveVars, labelVars, gameIdVars, rerunVars, parVars>>

\* the directories mkdir(parents=True) makes for <game_id>/<split>/<kind>
SplitDirs(g) ==
    {<<g>>} \cup {<<g, s>> : s \in {"train", "valid", "test"}}
            \cup {<<g, s, k>> : s \in {"train", "valid", "test"},
                                k \in {"images", "labels"}}

\* process_sequence, lines 276-301: game id, target directories, gameinfo.ini
PsSetup ==
    /\ pc = "ps_setup"
    /\ LET g == read_game_id(src_tree[snmot_name].gameinfo)
       IN  /\ game_id' = g
           /\ \E ok \in IoOutcomes :
                 /\ out' = [out EXCEPT !.dirs = @ \cup SplitDirs(g),
                                       !.meta = IF ok THEN Put(@, g, snmot_name) ELSE @]
                 /\ io_faults' = io_faults - Failed(ok)
    /\ pc' = "ps_list"
    /\ UNCHANGED <<sequences, seq_i, snmot_name, img_i, cnt, log>>
    /\ UNCHANGED <<img_list, train_imgs, valid_imgs, test_imgs>>
    /\ UNCHANGED <<pipeFixed, resolveVars, labelVars, gameIdVars, rerunVars, parVars>>

\* process_sequence, lines 303-320: the sorted image list and its three parts
PsList ==
    /\ pc = "ps_list"
    /\ LET list == SetToList(src_tree[snmot_name].img1.frames)
           plan == ChronoPlan(list)
       IN  /\ img_list' = list
           /\ IF list = <<>>
              THEN /\ log' = Append(log, [event |-> "skip_no_jpg", seq |-> snmot_name])
                   /\ pc' = "returned"
                   /\ UNCHANGED <<train_imgs, valid_imgs, test_imgs>>
              ELSE /\ train_imgs' = plan.train
                   /\ valid_imgs' = plan.valid
                   /\ test_imgs' = plan.test
                   /\ log' = log
                   /\ pc' = "ps_generate"
    /\ UNCHANGED <<out, sequences, seq_i, snmot_name, game_id, img_i, cnt>>
    /\ UNCHANGED <<pipeConst, resolveVars, labelVars, gameIdVars, rerunVars, parVars>>

\* generate_yolo_labels_all_frames, lines 184-196: the dimension cache
DimensionCache(img1) ==
    [f \in img1.frames |-> IF f \in img1.undecodable THEN None ELSE FrameDims]

\* generate_yolo_labels_all_frames, lines 241-255: the label files written
\* into output_label_dir, those in failed excepted
WriteLabels(labels, g, split, snmot, annotations, failed) ==
    LET written == (DOMAIN annotations) \ failed
        path(f) == <<g, split, PrefixedLabelName(snmot, f)>>
    IN  [p \in (DOMAIN labels) \cup {path(f) : f \in written} |->
            IF \E f \in written : path(f) = p
            THEN annotations[CHOOSE f \in written : path(f) = p]
            ELSE labels[p]]

\* process_sequence, lines 323-337: all labels into train/labels
PsGenerate ==
    /\ pc = "ps_generate"
    /\ LET s == src_tree[snmot_name]
           annotations == AnnotateFast(<<>>, s.gt.lines, DimensionCache(s.img1),
                                       REVERSE_ID_MAPPINGS, snmot_name)
       IN  \E failed \in {F \in SUBSET (DOMAIN annotations) :
                             Cardinality(F) <= io_faults} :
              LET written_count == Cardinality((DOMAIN annotations) \ failed)
              IN  /\ out' = [out EXCEPT !.labels =
                                WriteLabels(@, game_id, "train", snmot_name,
                                            annotations, failed)]
                  /\ cnt' = [ZeroCounters EXCEPT !.num_generated_labels = written_count]
                  /\ io_faults' = io_faults - Cardinality(failed)
                  /\ IF written_count = 0
                     THEN /\ log' = Append(log, [event |-> "skip_no_labels",
                                                 seq |-> snmot_name])
                          /\ pc' = "returned"
                     ELSE /\ log' = log
                          /\ pc' = "ps_train"
    /\ img_i' = 1
    /\ UNCHANGED <<sequences, seq_i, snmot_name, game_id>>
    /\ UNCHANGED <<img_list, train_imgs, valid_imgs, test_imgs>>
    /\ UNCHANGED <<pipeFixed, resolveVars, labelVars, gameIdVars, rerunVars, parVars>>

\* mutant of SourceAfterCopy: the image is moved out of img1
SourceAfterCopy_Moved(tree, snmot, frame) ==
    [tree EXCEPT ![snmot].img1.frames = @ \ {frame}]

\* the source tree after shutil.copy(img_path, target_img_path): img_path is
\* read and stays where it is
SourceAfterCopy(tree, snmot, frame) == tree

RECURSIVE SourceAfterCopies(_, _, _)
\* for img in list: shutil.copy(img, dir)
SourceAfterCopies(tree, snmot, list) ==
    IF list = <<>> THEN tree
    ELSE SourceAfterCopies(SourceAfterCopy(tree, snmot, Head(list)), snmot, Tail(list))

\* mutant of CopyImage: the image keeps its original file name
CopyImage_OriginalName(images, g, split, snmot, frame, ok) ==
    IF ok THEN Put(images, <<g, split, ImgFileName(frame)>>, <<snmot, frame>>)
    ELSE images

\* shutil.copy(img_path, <game_id>/<split>/images/<prefixed_img_name>)
CopyImage(images, g, split, snmot, frame, ok) ==
    IF ok THEN Put(images, <<g, split, PrefixedImgName(snmot, frame)>>, <<snmot, frame>>)
    ELSE images

\* mutant of MoveLabel: a label is not moved onto a file that is there
MoveLabel_NoOverwrite(labels, g, split, snmot, frame, ok) ==
    LET source_label_path == <<g, "train", LabelNameOfImage(snmot, frame)>>
        target_label_path == <<g, split, LabelNameOfImage(snmot, frame)>>
    IN  IF source_label_path \in DOMAIN labels /\ ok
           /\ target_label_path \notin DOMAIN labels
        THEN Put(Remove(labels, source_label_path), target_label_path,
                 labels[source_label_path])
        ELSE labels

\* mutant of MoveLabel: the label is copied, the staged file stays
MoveLabel_KeepSource(labels, g, split, snmot, frame, ok) ==
    LET source_label_path == <<g, "train", LabelNameOfImage(snmot, frame)>>
        target_label_path == <<g, split, LabelNameOfImage(snmot, frame)>>
    IN  IF source_label_path \in DOMAIN labels /\ ok
        THEN Put(labels, target_label_path, labels[source_label_path])
        ELSE labels

\* if source_label_path.is_file(): shutil.move(source_label_path, target_label_path)
MoveLabel(labels, g, split, snmot, frame, ok) ==
    LET source_label_path == <<g, "train", LabelNameOfImage(snmot, frame)>>
        target_label_path == <<g, split, LabelNameOfImage(snmot, frame)>>
    IN  IF source_label_path \in DOMAIN labels /\ ok
        THEN Put(Remove(labels, source_label_path), target_label_path,
                 labels[source_label_path])
        ELSE labels

\* process_sequence, lines 339-348: one pass of the loop over train_imgs
PsTrain ==
    /\ pc = "ps_train"
    /\ IF img_i <= Len(train_imgs)
       THEN /\ \E ok \in IoOutcomes :
                 /\ out' = [out EXCEPT !.images =
                              CopyImage(@, game_id, "train", snmot_name,
                                        train_imgs[img_i], ok)]
                 /\ cnt' = [cnt EXCEPT !.copied_train_images = Counted(@, ok)]
                 /\ io_faults' = io_faults - Failed(ok)
            /\ src_tree' = SourceAfterCopy(src_tree, snmot_name, train_imgs[img_i])
            /\ img_i' = img_i + 1
            /\ pc' = pc
       ELSE /\ img_i' = 1
            /\ pc' = "ps_valid"
            /\ UNCHANGED <<out, cnt, io_faults, src_tree>>
    /\ UNCHANGED <<sequences, seq_i, snmot_name, game_id, log>>
    /\ UNCHANGED <<img_list, train_imgs, valid_imgs, test_imgs>>
    /\ UNCHANGED <<pipeRest, resolveVars, labelVars, gameIdVars, rerunVars, parVars>>

\* process_sequence, lines 350-372: one pass of the loop over valid_imgs
PsValid ==
    /\ pc = "ps_valid"
    /\ IF img_i <= Len(valid_imgs)
       THEN /\ \E ok_copy \in BOOLEAN, ok_move \in BOOLEAN :
                 LET frame == valid_imgs[img_i]
                     staged == <<game_id, "train", LabelNameOfImage(snmot_name, frame)>>
                                  \in DOMAIN out.labels
                     failures == Failed(ok_copy)
                                    + (IF staged THEN Failed(ok_move) ELSE 0)
                 IN  /\ failures <= io_faults
                     /\ io_faults' = io_faults - failures
                     /\ out' = [out EXCEPT
                                  !.images = CopyImage(@, game_id, "valid", snmot_name,
                                                       frame, ok_copy),
                                  !.labels = MoveLabel(@, game_id, "valid", snmot_name,
                                                       frame, ok_move)]
                     /\ cnt' = [cnt EXCEPT
                                  !.copied_valid_images = Counted(@, ok_copy),
                                  !.moved_valid_labels =
                                      IF staged THEN Counted(@, ok_move) ELSE @]
            /\ src_tree' = SourceAfterCopy(src_tree, snmot_name, valid_imgs[img_i])
            /\ img_i' = img_i + 1
            /\ pc' = pc
       ELSE /\ img_i' = 1
            /\ pc' = "ps_test"
            /\ UNCHANGED <<out, cnt, io_faults, src_tree>>
    /\ UNCHANGED <<sequences, seq_i, snmot_name, game_id, log>>
    /\ UNCHANGED <<img_list, train_imgs, valid_imgs, test_imgs>>
    /\ UNCHANGED <<pipeRest, resolveVars, labelVars, gameIdVars, rerunVars, parVars>>

\* process_sequence, lines 374-396: one pass of the loop over test_imgs
PsTest ==
    /\ pc = "ps_test"
    /\ IF img_i <= Len(test_imgs)
       THEN /\ \E ok_copy \in BOOLEAN, ok_move \in BOOLEAN :
                 LET frame == test_imgs[img_i]
                     staged == <<game_id, "train", LabelNameOfImage(snmot_name, frame)>>
                                  \in DOMAIN out.labels
                     failures == Failed(ok_copy)
                                    + (IF staged THEN Failed(ok_move) ELSE 0)
                 IN  /\ failures <= io_faults
                     /\ io_faults' = io_faults - failures
                     /\ out' = [out EXCEPT
                                  !.images = CopyImage(@, game_id, "test", snmot_name,
                                                       frame, ok_copy),
                                  !.labels = MoveLabel(@, game_id, "test", snmot_name,
                                                       frame, ok_move)]
                     /\ cnt' = [cnt EXCEPT
                                  !.copied_test_images = Counted(@, ok_copy),
                                  !.moved_test_labels =
                                      IF staged THEN Counted(@, ok_move) ELSE @]
            /\ src_tree' = SourceAfterCopy(src_tree, snmot_name, test_imgs[img_i])
            /\ img_i' = img_i + 1
            /\ pc' = pc
       ELSE /\ img_i' = 1
            /\ pc' = "ps_final"
            /\ UNCHANGED <<out, cnt, io_faults, src_tree>>
    /\ UNCHANGED <<sequences, seq_i, snmot_name, game_id, log>>
    /\ UNCHANGED <<img_list, train_imgs, valid_imgs, test_imgs>>
    /\ UNCHANGED <<pipeRest, resolveVars, labelVars, gameIdVars, rerunVars, parVars>>

\* process_sequence, lines 398-404: the final report
PsFinal ==
    /\ pc = "ps_final"
    /\ log' = Append(log,
          [event |-> "processed", seq |-> snmot_name, game_id |-> game_id,
           train_images |-> cnt.copied_train_images,
           train_labels |-> cnt.copied_train_images - cnt.moved_valid_labels
                               - cnt.moved_test_labels,
           valid_images |-> cnt.copied_valid_images,
           valid_labels |-> cnt.moved_valid_labels,
           test_images |-> cnt.copied_test_images,
           test_labels |-> cnt.moved_test_labels])
    /\ pc' = "returned"
    /\ UNCHANGED <<out, sequences, seq_i, snmot_name, game_id, img_i, cnt>>
    /\ UNCHANGED <<img_list, train_imgs, valid_imgs, test_imgs>>
    /\ UNCHANGED <<pipeConst, resolveVars, labelVars, gameIdVars, rerunVars, parVars>>

\* nothing of any sequence is in the output tree or in the log
NothingProcessed ==
    /\ out.dirs \subseteq {<<>>}
    /\ out.images = <<>> /\ out.labels = <<>> /\ out.meta = <<>>
    /\ \A i \in DOMAIN log : log[i].seq = ""

\* C12 (configuration errors): when the ratios do not sum to 1.0 the run
\* never gets past the module body, when the source root does not exist it
\* never gets past the start of main, and in both cases no sequence is
\* processed.
C12_ConfigErrorsStopTheRun ==
    /\ ~RatiosSumToOne(ratios) => pc \in {"import", "raised"}
    /\ ~src_root => pc \in {"import", "raised", "main", "exit"}
    /\ (~RatiosSumToOne(ratios) \/ ~src_root) => NothingProcessed

\* the assert has raised on ratios that sum to 0.9 although the source root
\* holds sequences
C12_Witness ==
    /\ pc = "raised"
    /\ ratios = <<TRAIN_RATIO, VALID_RATIO, VALID_RATIO>>
    /\ src_root /\ DOMAIN src_tree # {}

Splits == {"train", "valid", "test"}

\* process_sequence has run on sequence s and has returned
Returned(s) ==
    \E i \in DOMAIN log : log[i].seq = s /\ log[i].event # "not_in_mappings"

FramesOf(s) == src_tree[s].img1.frames

\* the metadata file, the annotation file and the image directory of s exist
AllPresent(s) ==
    /\ src_tree[s].gameinfo.exists
    /\ src_tree[s].gt.exists
    /\ src_tree[s].img1.exists

\* the split plan of the sorted image list of sequence s
PlanOf(s) == ChronoPlan(SetToList(FramesOf(s)))

\* the image of frame f of s is at <game-id>/<split>/images/<s>_<file name>,
\* and at that path of no other split
ImageCopied(s, f, split) ==
    LET g == read_game_id(src_tree[s].gameinfo)
        at(other) == <<g, other, PrefixedImgName(s, f)>>
    IN  /\ at(split) \in DOMAIN out.images
        /\ out.images[at(split)] = <<s, f>>
        /\ \A other \in Splits \ {split} : at(other) \notin DOMAIN out.images

\* every frame image of s is in a subset of the plan and is copied to the
\* split of that subset
AllImagesCopied(s) ==
    LET plan == PlanOf(s)
    IN  /\ FramesOf(s) = Range(plan.train) \cup Range(plan.valid) \cup Range(plan.test)
        /\ \A f \in Range(plan.train) : ImageCopied(s, f, "train")
        /\ \A f \in Range(plan.valid) : ImageCopied(s, f, "valid")
        /\ \A f \in Range(plan.test) : ImageCopied(s, f, "test")

\* some row of the gt.txt of s survives label generation
HasSurvivingAnnotation(s) ==
    AnnotateFast(<<>>, src_tree[s].gt.lines, DimensionCache(src_tree[s].img1),
                 REVERSE_ID_MAPPINGS, s) # <<>>

\* frame f of s has a label file somewhere in the output tree
HasLabel(s, f) ==
    \E p \in DOMAIN out.labels : p[3] = PrefixedLabelName(s, f)

\* the label lines of the surviving rows of frame f in the gt.txt of
\* sequence s, in the order of the rows
SurvivingLines(s, f) ==
    LET cache == DimensionCache(src_tree[s].img1)
        r(parts) == RowToLineFast(parts, cache, REVERSE_ID_MAPPINGS, s)
        rows == SelectSeq(src_tree[s].gt.lines,
                          LAMBDA parts : ~r(parts).skip /\ r(parts).frame_id = f)
    IN  [i \in 1..Len(rows) |-> r(rows[i]).line]

\* C16 (label files): when generate_yolo_labels_all_frames has returned with
\* a label file written, the staging directory holds the label file
\* <sequence-id>_<frame-id:06d>.txt of a frame if and only if the frame has a
\* surviving annotation, and the file holds the lines of the surviving
\* annotations of the frame, one each, in the order of their rows.
C16_LabelFiles ==
    pc = "ps_train" =>
        \A f \in 1..(MaxFrames + 1) :
            LET path == <<game_id, "train", PrefixedLabelName(snmot_name, f)>>
                lines == SurvivingLines(snmot_name, f)
            IN  /\ path \in DOMAIN out.labels <=> lines # <<>>
                /\ path \in DOMAIN out.labels => out.labels[path] = lines

\* label generation has written the file of a frame with two different
\* lines and no file for another frame of the sequence
C16_Witness ==
    /\ pc = "ps_train"
    /\ \E f \in FramesOf(snmot_name) :
          LET path == <<game_id, "train", PrefixedLabelName(snmot_name, f)>>
          IN  /\ path \in DOMAIN out.labels
              /\ Len(out.labels[path]) = 2
              /\ out.labels[path][1] # out.labels[path][2]
    /\ \E f \in FramesOf(snmot_name) : ~HasLabel(snmot_name, f)

LabelSplits(s, f) ==
    {split \in Splits :
        <<read_game_id(src_tree[s].gameinfo), split, PrefixedLabelName(s, f)>>
            \in DOMAIN out.labels}

ImagesIn(s, g, split) ==
    {f \in 1..MaxFrames : <<g, split, PrefixedImgName(s, f)>> \in DOMAIN out.images}
LabelsIn(s, g, split) ==
    {f \in 1..MaxFrames : <<g, split, PrefixedLabelName(s, f)>> \in DOMAIN out.labels}

\* C19 (per-file I/O failure): while process_sequence distributes a
\* sequence, and when it is about to report, each counter of copied images
\* is the number of images of the sequence in that split, each counter of
\* moved labels the number of its labels in that split, and the count of
\* generated labels the number of its label files in the three splits.
C19_CountersCountFiles ==
    pc \in {"ps_train", "ps_valid", "ps_test", "ps_final"} =>
        /\ cnt.copied_train_images =
              Cardinality(ImagesIn(snmot_name, game_id, "train"))
        /\ cnt.copied_valid_images =
              Cardinality(ImagesIn(snmot_name, game_id, "valid"))
        /\ cnt.copied_test_images =
              Cardinality(ImagesIn(snmot_name, game_id, "test"))
        /\ cnt.moved_valid_labels =
              Cardinality(LabelsIn(snmot_name, game_id, "valid"))
        /\ cnt.moved_test_labels =
              Cardinality(LabelsIn(snmot_name, game_id, "test"))
        /\ cnt.num_generated_labels =
              Cardinality(LabelsIn(snmot_name, game_id, "train"))
                 + Cardinality(LabelsIn(snmot_name, game_id, "valid"))
                 + Cardinality(LabelsIn(snmot_name, game_id, "test"))

\* process_sequence has gone through all three loops although the copy of
\* a valid image and the move of a test label failed
C19_Witness ==
    /\ pc = "ps_final"
    /\ cnt.copied_valid_images < Len(valid_imgs)
    /\ cnt.copied_test_images = Len(test_imgs)
    /\ cnt.moved_test_labels < Len(test_imgs)
    /\ cnt.moved_test_labels < Cardinality(LabelsIn(snmot_name, game_id, "train"))

MaxSlowFrames == 2

\* the entries of split.py ID_MAPPINGS the model keeps ("SNMOT-117" has the
\* key "referee" twice: the later value at the place of the first)
SPLIT_ID_MAPPINGS ==
    ("SNMOT-116" :> << [key |-> "referee",    val |-> <<4, 25>>],
                       [key |-> "ball",       val |-> <<20>>],
                       [key |-> "goalkeeper", val |-> <<19>>] >>)
    @@
    ("SNMOT-117" :> << [key |-> "referee",    val |-> <<7, 9, 25>>],
                       [key |-> "ball",       val |-> <<8>>],
                       [key |-> "goalkeeper", val |-> <<1, 26>>] >>)

SlowDirNames == <<"SNMOT-116", "SNMOT-117">>

\* os.listdir(SOURCE_DIR): the entries in arbitrary order
ListDir(tree) ==
    { SelectSeq(Shuffle42(SlowDirNames, p), LAMBDA d : d \in DOMAIN tree) :
        p \in Perms(Len(SlowDirNames)) }

\* a gt.txt whose second row has a field that is no number
BadGt ==
    [exists |-> TRUE,
     lines |-> <<GoodRow(1, 20),
                 <<IntTok(1), IntTok(7), BadTok, IntTok(200), IntTok(50), IntTok(80)>> >>]

\* the sequence directories split.py is run on
SlowProfiles ==
    { [gameinfo |-> NoFile, gt |-> FullGt(1), img1 |-> ImgDir(1..1, {})],
      [gameinfo |-> WithGameId, gt |-> NoFile, img1 |-> ImgDir(1..1, {})],
      [gameinfo |-> WithGameId, gt |-> FullGt(1), img1 |-> NoDir],
      [gameinfo |-> WithGameId, gt |-> FullGt(1), img1 |-> ImgDir({}, {})],
      [gameinfo |-> WithoutGameId, gt |-> FullGt(1), img1 |-> ImgDir(1..1, {})],
      [gameinfo |-> WithGameId, gt |-> BadGt, img1 |-> ImgDir(1..1, {})] }
    \cup
    UNION { { [gameinfo |-> WithGameId, gt |-> g, img1 |-> ImgDir(1..n, u)] :
                g \in {EmptyGt, FullGt(n), SparseGt(n)}, u \in {{}, {n}} } :
            n \in 1..MaxSlowFrames }

SlowStart ==
    /\ src_root \in BOOLEAN
    /\ IF src_root
       THEN \E a \in SlowProfiles, b \in SlowProfiles :
               src_tree = ("SNMOT-116" :> a) @@ ("SNMOT-117" :> b)
       ELSE src_tree = <<>>
    /\ io_faults = 0
    /\ rng_state = OsSeeded
    /\ ratios = <<>>
    /\ out = EmptyTree
    /\ pc = "main"
    /\ sequences = <<>>
    /\ seq_i = 0
    /\ snmot_name = ""
    /\ game_id = ""
    /\ img_i = 0
    /\ cnt = ZeroCounters
    /\ log = <<>>
    /\ img_list = <<>> /\ split_pc = "idle"
    /\ rng42 \in {f \in [0..MaxSlowFrames -> UNION {Perms(n) : n \in 0..MaxSlowFrames}] :
                     \A n \in 0..MaxSlowFrames : f[n] \in Perms(n)}
    /\ train_imgs = <<>> /\ valid_imgs = <<>> /\ test_imgs = <<>>
    /\ ID_MAPPINGS = SPLIT_ID_MAPPINGS
    /\ REVERSE_ID_MAPPINGS = <<>>
    /\ res_pc = "idle" /\ res_args = <<>> /\ res_ret = <<>>

\* split.py main, lines 195-197: create TARGET_DIR, list SOURCE_DIR
SlowMainStart ==
    /\ pc = "main"
    /\ out' = [out EXCEPT !.dirs = @ \cup {<<>>}]
    /\ IF ~src_root
       THEN \* os.listdir raises FileNotFoundError
            /\ pc' = "raised"
            /\ UNCHANGED <<sequences, seq_i>>
       ELSE /\ sequences' \in ListDir(src_tree)
            /\ seq_i' = 1
            /\ pc' = "loop"
    /\ UNCHANGED <<snmot_name, game_id, img_i, cnt, log>>
    /\ UNCHANGED <<img_list, train_imgs, valid_imgs, test_imgs>>
    /\ UNCHANGED <<pipeConst, resolveVars, labelVars, gameIdVars, rerunVars, parVars>>

\* split.py main, lines 197-200: the next entry
SlowMainLoop ==
    /\ pc = "loop"
    /\ IF seq_i > Len(sequences)
       THEN /\ pc' = "exit"
            /\ UNCHANGED snmot_name
       ELSE /\ snmot_name' = sequences[seq_i]
            /\ pc' = "sp_check"
    /\ UNCHANGED <<out, sequences, seq_i, game_id, img_i, cnt, log>>
    /\ UNCHANGED <<img_list, train_imgs, valid_imgs, test_imgs>>
    /\ UNCHANGED <<pipeConst, resolveVars, labelVars, gameIdVars, rerunVars, parVars>>

\* split.py main, line 200: process_sequence returned
SlowMainReturn ==
    /\ pc = "returned"
    /\ seq_i' = seq_i + 1
    /\ pc' = "loop"
    /\ UNCHANGED <<out, sequences, snmot_name, game_id, img_i, cnt, log>>
    /\ UNCHANGED <<img_list, train_imgs, valid_imgs, test_imgs>>
    /\ UNCHANGED <<pipeConst, resolveVars, labelVars, gameIdVars, rerunVars, parVars>>

\* split.py read_game_id
split_read_game_id(gameinfo) == ScanGameId(gameinfo).value

\* the directories os.makedirs makes for <game_id>/{test,valid}/{images,labels}
SlowDirs(g) ==
    {<<g>>} \cup {<<g, s>> : s \in {"test", "valid"}}
            \cup {<<g, s, k>> : s \in {"test", "valid"}, k \in {"images", "labels"}}

\* split.py process_sequence, lines 146-172: checks, game id, directories
SlowSetup ==
    /\ pc = "sp_check"
    /\ LET s == src_tree[snmot_name]
           g == split_read_game_id(s.gameinfo)
       IN  IF ~s.gameinfo.exists \/ ~s.gt.exists
           THEN /\ log' = Append(log, [event |-> "skip_missing", seq |-> snmot_name])
                /\ pc' = "returned"
                /\ UNCHANGED <<out, game_id>>
           ELSE /\ game_id' = g
                /\ out' = [out EXCEPT !.dirs = @ \cup SlowDirs(g),
                                      !.meta = Put(@, g, snmot_name)]
                /\ log' = log
                /\ pc' = "sp_copy"
    /\ UNCHANGED <<sequences, seq_i, snmot_name, img_i, cnt>>
    /\ UNCHANGED <<img_list, train_imgs, valid_imgs, test_imgs>>
    /\ UNCHANGED <<pipeConst, resolveVars, labelVars, gameIdVars, rerunVars, parVars>>

\* shutil.copy(img, dir) for every img of a list: the files it writes
SlowCopies(g, split, snmot, list) ==
    [p \in {<<g, split, ImgFileName(list[i])>> : i \in DOMAIN list} |->
        <<snmot, CHOOSE f \in Range(list) : <<g, split, ImgFileName(f)>> = p>>]

\* split.py process_sequence, lines 174-186: shuffle, split, copy the images
SlowCopy ==
    /\ pc = "sp_copy"
    /\ LET list == SetToList(src_tree[snmot_name].img1.frames)
           st   == random_seed(rng_state, 42)
       IN  \E perm \in ShufflePerms(st, Len(list)) :
              LET plan == ShufflePlan(list, perm)
              IN  /\ img_list' = Shuffle42(list, perm)
                  /\ rng_state' = AfterShuffle(st, Len(list))
                  /\ train_imgs' = plan.train
                  /\ valid_imgs' = plan.valid
                  /\ out' = [out EXCEPT !.images =
                               SlowCopies(game_id, "valid", snmot_name, plan.valid)
                               @@ SlowCopies(game_id, "test", snmot_name, plan.train)
                               @@ @]
                  /\ src_tree' = SourceAfterCopies(src_tree, snmot_name,
                                                   Shuffle42(list, perm))
    /\ pc' = "sp_convert"
    /\ UNCHANGED <<sequences, seq_i, snmot_name, game_id, img_i, cnt, log, test_imgs>>
    /\ UNCHANGED <<src_root, io_faults, ratios, rng42, split_pc>>
    /\ UNCHANGED <<resolveVars, labelVars, gameIdVars, rerunVars, parVars>>

\* convert_gt_to_yolo_format, lines 145-149: the label files it writes
SlowLabels(g, split, annotations) ==
    [p \in {<<g, split, Pad6(f) \o ".txt">> : f \in DOMAIN annotations} |->
        annotations[CHOOSE f \in DOMAIN annotations : <<g, split, Pad6(f) \o ".txt">> = p]]

\* split.py process_sequence, lines 188-191: the two conversions
SlowConvert ==
    /\ pc = "sp_convert"
    /\ LET s == src_tree[snmot_name]
           r == AnnotateSlow(<<>>, s.gt.lines, DimensionCache(s.img1),
                             ID_MAPPINGS, snmot_name)
           test_labels == SlowLabels(game_id, "test", r.annotations)
           valid_labels == SlowLabels(game_id, "valid", r.annotations)
       IN  IF r.raised
           THEN /\ pc' = "raised"
                /\ UNCHANGED <<out, log>>
           ELSE /\ out' = [out EXCEPT !.labels = valid_labels @@ test_labels @@ @]
                /\ log' = Append(log,
                      [event |-> "processed", seq |-> snmot_name, game_id |-> game_id,
                       images |-> {<<game_id, "test", ImgFileName(f)>> :
                                      f \in Range(train_imgs)}
                                  \cup {<<game_id, "valid", ImgFileName(f)>> :
                                      f \in Range(valid_imgs)},
                       labels |-> (DOMAIN test_labels) \cup (DOMAIN valid_labels)])
                /\ pc' = "returned"
    /\ UNCHANGED <<sequences, seq_i, snmot_name, game_id, img_i, cnt>>
    /\ UNCHANGED <<img_list, train_imgs, valid_imgs, test_imgs>>
    /\ UNCHANGED <<pipeConst, resolveVars, labelVars, gameIdVars, rerunVars, parVars>>

\* C6 (filename collision avoidance): for two distinct sequences with the
\* same game-id, no image file and no label file written for one has the
\* directory and name of a file written for the other.
C6_NoNameCollision ==
    \A i, j \in DOMAIN log :
        (/\ log[i].event = "processed" /\ log[j].event = "processed"
         /\ log[i].seq # log[j].seq
         /\ log[i].game_id = log[j].game_id)
        => /\ log[i].images \cap log[j].images = {}
           /\ log[i].labels \cap log[j].labels = {}

\* C14 (reproducible shuffle split): when process_sequence of split.py has
\* shuffled and split the image list of a sequence, the shuffled list and
\* the two subsets are those that the seed 42 gives for the sorted list,
\* whatever was shuffled before in the run.
C14_ReproducibleShuffle ==
    pc = "sp_convert" =>
        LET list == SetToList(FramesOf(snmot_name))
            plan == ShufflePlan(list, rng42[Len(list)])
        IN  /\ img_list = Shuffle42(list, rng42[Len(list)])
            /\ train_imgs = plan.train
            /\ valid_imgs = plan.valid

\* the second sequence of the run has had its two or more frames shuffled
\* and split after the first sequence had its two or more frames shuffled
C14_Witness ==
    /\ pc = "sp_convert"
    /\ seq_i = 2
    /\ Len(img_list) >= 2
    /\ Len(log) = 1 /\ log[1].event = "processed"
    /\ Cardinality(log[1].images) >= 2

\* C18 (single-split policy): every label file split.py has written lies
\* in the labels directory of a split whose images directory holds the image
\* of the frame of the label.
C18_LabelsBesideImages ==
    \A p \in DOMAIN out.labels :
        \E f \in 1..(MaxSlowFrames + 1) :
            /\ p[3] = Pad6(f) \o ".txt"
            /\ <<p[1], p[2], ImgFileName(f)>> \in DOMAIN out.images

\* C11 (sequence-level skip): a sequence that lacks its metadata file, its
\* annotation file or its image directory is skipped: what process_sequence
\* reports for it is a skip, never a processed sequence.
C11_IncompleteSequenceSkipped ==
    \A i \in DOMAIN log :
        (log[i].seq \in DOMAIN src_tree /\ ~AllPresent(log[i].seq))
            => log[i].event # "processed"

\* the final report process_sequence printed for the sequence it just left
LastReport == log[Len(log)]

\* C28 (reported train label count): the number of train labels of the
\* final report of process_sequence is the number of label files of the
\* sequence that are in train/labels once the valid and test labels were
\* moved out.
C28_ReportedTrainLabels ==
    (pc = "returned" /\ log # <<>> /\ LastReport.event = "processed") =>
        LastReport.train_labels = Cardinality(LabelsIn(snmot_name, game_id, "train"))

\* the skips of process_sequence for a missing metadata file, annotation
\* file or image directory, and for an image directory without any jpg
SkipEvents == {"skip_no_gameinfo", "skip_no_gt", "skip_no_img1", "skip_no_jpg"}

\* the files of the output tree that were made from sequence s
FilesFrom(s) ==
    {p \in DOMAIN out.images : out.images[p][1] = s}
        \cup {p \in DOMAIN out.labels : \E f \in 1..(MaxFrames + 1) :
                                           p[3] = PrefixedLabelName(s, f)}
        \cup {<<g, "gameinfo.ini">> : g \in {x \in DOMAIN out.meta : out.meta[x] = s}}

\* C29 (clean skip): when process_sequence has skipped a sequence for a
\* missing metadata file, annotation file or image directory or for an image
\* directory without any jpg, the output tree holds no file of that sequence,
\* and no directory but the root when no sequence was handled before it.
C29_CleanSkip ==
    (pc = "returned" /\ log # <<>> /\ LastReport.event \in SkipEvents) =>
        /\ FilesFrom(snmot_name) = {}
        /\ Len(log) = 1 => out.dirs \subseteq {<<>>}

\* the directory names of the two scripts' source trees, in sorted order
SortedNames == <<"SNMOT-060", "SNMOT-066", "SNMOT-116", "SNMOT-117", "SNMOT-999">>

\* the place of a directory name in the sorted order
RankOf(d) == CHOOSE i \in DOMAIN SortedNames : SortedNames[i] = d

\* the directories main has handled so far, in the order it handled them
Handled == SelectSeq([i \in DOMAIN log |-> log[i].seq],
                     LAMBDA d : d \in Range(SortedNames))

\* C25 (processing order): main handles the sequence directories one at a
\* time in sorted order of their names and each at most once: of any two
\* directories it has handled, the one handled first has the smaller name,
\* and the directory in work is the one main's loop stands at.
C25_ProcessingOrder ==
    /\ \A i, j \in DOMAIN Handled :
          i < j => RankOf(Handled[i]) < RankOf(Handled[j])
    /\ pc \in {"ps_check", "ps_setup", "ps_list", "ps_generate", "ps_train",
               "ps_valid", "ps_test", "ps_final", "returned",
               "sp_check", "sp_copy", "sp_convert"}
          => /\ seq_i \in DOMAIN sequences
             /\ snmot_name = sequences[seq_i]

\* the log entries of directory d
EntriesOf(d) == {i \in DOMAIN log : log[i].seq = d}

\* C30 (sequence filter): main calls process_sequence exactly for the source
\* subdirectories whose name is a key of ID_MAPPINGS: the sequence in work is
\* always a key, a directory with another name is only reported as skipped
\* and no file of the output tree comes from it, and when main is through,
\* process_sequence has reported on every directory that is a key.
C30_SequenceFilter ==
    /\ pc \in {"ps_check", "ps_setup", "ps_list", "ps_generate", "ps_train",
               "ps_valid", "ps_test", "ps_final", "returned"}
          => snmot_name \in DOMAIN ID_MAPPINGS
    /\ \A d \in (DOMAIN src_tree) \ (DOMAIN ID_MAPPINGS) :
          /\ FilesFrom(d) = {}
          /\ \A i \in EntriesOf(d) : log[i].event = "not_in_mappings"
    /\ (pc = "exit" /\ src_root) =>
          \A d \in DOMAIN src_tree :
             /\ d \in DOMAIN ID_MAPPINGS => Returned(d)
             /\ d \notin DOMAIN ID_MAPPINGS => EntriesOf(d) # {}

\* main is through: the directory SNMOT-999, with its metadata, annotation
\* file and image, was skipped, and a sequence before it was processed
C30_Witness ==
    /\ pc = "exit" /\ src_root
    /\ AllPresent("SNMOT-999") /\ FramesOf("SNMOT-999") # {}
    /\ \E i \in EntriesOf("SNMOT-999") : log[i].event = "not_in_mappings"
    /\ \E i \in DOMAIN log : log[i].event = "processed"
    /\ out.images # <<>>

\* C21 (source is read-only): no step of the pipeline changes the source
\* directory tree: no file or directory under it is created, modified, moved
\* or deleted; images are copied out of it, and the only files that are
\* moved are label files of the output tree.
C21_SourceReadOnly == [][src_tree' = src_tree]_vars

\* main is through with a source tree whose images were copied into the
\* three splits and whose valid and test labels were moved out of staging
C21_Witness ==
    /\ pc = "exit" /\ src_root
    /\ \A split \in Splits : \E p \in DOMAIN out.images : p[2] = split
    /\ \E p \in DOMAIN out.labels : p[2] = "valid"
    /\ \E p \in DOMAIN out.labels : p[2] = "test"
    /\ \A p \in DOMAIN out.images :
          out.images[p][2] \in src_tree[out.images[p][1]].img1.frames

\* the image, label and metadata files of tree that were made from a
\* sequence other than s, each with what it holds
FilesOfOthers(tree, s) ==
    [images |-> {<<p, tree.images[p]>> : p \in {q \in DOMAIN tree.images :
                                                  tree.images[q][1] # s}},
     labels |-> {<<p, tree.labels[p]>> : p \in {q \in DOMAIN tree.labels :
                    \A f \in 1..(MaxFrames + 1) : q[3] # PrefixedLabelName(s, f)}},
     meta   |-> {<<g, tree.meta[g]>> : g \in {x \in DOMAIN tree.meta :
                                                 tree.meta[x] # s}}]

\* C23 (per-sequence namespace): a step of process_sequence on a sequence
\* leaves every file that another sequence wrote into the output tree where
\* it is and as it is: the file is not overwritten, moved or removed.
C23_PerSequenceNamespace ==
    [][\A s \in DOMAIN src_tree :
          (pc \in {"ps_check", "ps_setup", "ps_list", "ps_generate", "ps_train",
                   "ps_valid", "ps_test", "ps_final"} /\ s = snmot_name)
          => /\ FilesOfOthers(out, s).images \subseteq FilesOfOthers(out', s).images
             /\ FilesOfOthers(out, s).labels \subseteq FilesOfOthers(out', s).labels
             /\ FilesOfOthers(out, s).meta \subseteq FilesOfOthers(out', s).meta]_vars

(***************************************************************************)
(* faster_split.py run a second time over the output tree of the first run.*)
(***************************************************************************)
\* the sequence directories the script is run twice on
RerunProfiles ==
    { [gameinfo |-> WithGameId, gt |-> FullGt(MaxFrames), img1 |-> ImgDir(1..MaxFrames, {})],
      [gameinfo |-> WithGameId, gt |-> SparseGt(MaxFrames),
       img1 |-> ImgDir(1..MaxFrames, {})],
      [gameinfo |-> WithoutGameId, gt |-> FullGt(MaxFrames),
       img1 |-> ImgDir(1..MaxFrames, {MaxFrames})],
      [gameinfo |-> WithGameId, gt |-> EmptyGt, img1 |-> ImgDir(1..2, {})],
      [gameinfo |-> WithGameId, gt |-> FullGt(2), img1 |-> ImgDir({}, {})],
      [gameinfo |-> NoFile, gt |-> FullGt(2), img1 |-> ImgDir(1..2, {})] }

RerunStart ==
    /\ src_root = TRUE
    /\ \E a \in RerunProfiles, b \in RerunProfiles :
          src_tree = ("SNMOT-060" :> a) @@ ("SNMOT-066" :> b)
                        @@ ("SNMOT-999" :> OtherDir)
    /\ io_faults = 0
    /\ rng_state = OsSeeded
    /\ ratios = <<TRAIN_RATIO, VALID_RATIO, TEST_RATIO>>
    /\ out = EmptyTree
    /\ pc = "import"
    /\ sequences = <<>>
    /\ seq_i = 0
    /\ snmot_name = ""
    /\ game_id = ""
    /\ img_i = 0
    /\ cnt = ZeroCounters
    /\ log = <<>>
    /\ img_list = <<>> /\ rng42 = <<>> /\ split_pc = "idle"
    /\ train_imgs = <<>> /\ valid_imgs = <<>> /\ test_imgs = <<>>
    /\ run_no = 1
    /\ first_out = EmptyTree

\* the script is started again: a new process, TARGET_DIR as it was left
Rerun ==
    /\ pc = "exit" /\ run_no = 1
    /\ run_no' = 2
    /\ first_out' = out
    /\ pc' = "import"
    /\ sequences' = <<>>
    /\ seq_i' = 0
    /\ snmot_name' = ""
    /\ game_id' = ""
    /\ img_i' = 0
    /\ cnt' = ZeroCounters
    /\ log' = <<>>
    /\ img_list' = <<>> /\ train_imgs' = <<>> /\ valid_imgs' = <<>> /\ test_imgs' = <<>>
    /\ UNCHANGED <<out, pipeConst, resolveVars, labelVars, gameIdVars, parVars>>

\* C27 (re-run idempotence): when a second run of faster_split.main on the
\* unchanged source tree, over the output tree of the first run, is through,
\* the images and labels directories of every split hold the files they held
\* after the first run, with what they held; no label of a valid or test
\* frame is left in train/labels.
C27_RerunIdempotent ==
    (pc = "exit" /\ run_no = 2) =>
        /\ out.images = first_out.images
        /\ out.labels = first_out.labels
        /\ \A s \in {"SNMOT-060", "SNMOT-066"} :
              \A f \in Range(PlanOf(s).valid) \cup Range(PlanOf(s).test) :
                 LabelSplits(s, f) \subseteq {"valid", "test"}

\* the second run is through; the first had moved labels of two sequences
\* of one game-id into valid and test, and left labels in train
C27_Witness ==
    /\ pc = "exit" /\ run_no = 2
    /\ \A s \in {"SNMOT-060", "SNMOT-066"} :
          \E i \in DOMAIN log : log[i].seq = s /\ log[i].event = "processed"
    /\ \A split \in Splits : \E p \in DOMAIN first_out.labels : p[2] = split
    /\ Cardinality(DOMAIN first_out.meta) = 1

(***************************************************************************)
(* Two calls of faster_split.py process_sequence, for two sequences, whose *)
(* file operations interleave; each call does its own operations in the    *)
(* order of the code.                                                      *)
(***************************************************************************)
\* the sequence directories of the two calls; they share the game-id
ParProfiles ==
    { [gameinfo |-> WithGameId, gt |-> FullGt(MaxFrames), img1 |-> ImgDir(1..MaxFrames, {})],
      [gameinfo |-> WithGameId, gt |-> SparseGt(MaxFrames),
       img1 |-> ImgDir(1..MaxFrames, {})],
      [gameinfo |-> WithGameId, gt |-> FullGt(2), img1 |-> ImgDir(1..2, {})],
      [gameinfo |-> WithGameId, gt |-> EmptyGt, img1 |-> ImgDir(1..2, {})] }

\* a call of process_sequence(seq) that has not started
ParCall(seq) ==
    [pc |-> "setup", seq |-> seq, game_id |-> "", ann |-> <<>>, todo |-> <<>>,
     train |-> <<>>, valid |-> <<>>, test |-> <<>>, i |-> 0]

ParStart ==
    /\ src_root = TRUE
    /\ \E a \in ParProfiles, b \in ParProfiles :
          src_tree = ("SNMOT-060" :> a) @@ ("SNMOT-066" :> b)
    /\ io_faults = 0
    /\ rng_state = OsSeeded
    /\ ratios = <<TRAIN_RATIO, VALID_RATIO, TEST_RATIO>>
    /\ out = [EmptyTree EXCEPT !.dirs = {<<>>}]
    /\ pc = "idle"
    /\ sequences = <<>>
    /\ seq_i = 0
    /\ snmot_name = ""
    /\ game_id = ""
    /\ img_i = 0
    /\ cnt = ZeroCounters
    /\ log = <<>>
    /\ img_list = <<>> /\ rng42 = <<>> /\ split_pc = "idle"
    /\ train_imgs = <<>> /\ valid_imgs = <<>> /\ test_imgs = <<>>
    /\ par = (1 :> ParCall("SNMOT-060")) @@ (2 :> ParCall("SNMOT-066"))

\* what a step of a call leaves alone, but for par and out
parFrame ==
    <<pipeConst, sequences, seq_i, snmot_name, game_id, img_i, cnt, log, pc,
      img_list, train_imgs, valid_imgs, test_imgs,
      resolveVars, labelVars, gameIdVars, rerunVars>>

\* lines 276-296: the game id and the six mkdir(parents=True, exist_ok=True)
ParSetup(p) ==
    /\ par[p].pc = "setup"
    /\ LET g == read_game_id(src_tree[par[p].seq].gameinfo)
       IN  /\ out' = [out EXCEPT !.dirs = @ \cup SplitDirs(g)]
           /\ par' = [par EXCEPT ![p].game_id = g, ![p].pc = "meta"]
    /\ UNCHANGED parFrame

\* lines 299-301: shutil.copy2 of gameinfo.ini
ParMeta(p) ==
    /\ par[p].pc = "meta"
    /\ out' = [out EXCEPT !.meta = Put(@, par[p].game_id, par[p].seq)]
    /\ par' = [par EXCEPT ![p].pc = "list"]
    /\ UNCHANGED parFrame

\* lines 303-320 and 159-238: the image list, its three parts, and the
\* annotations of generate_yolo_labels_all_frames before any file is written
ParList(p) ==
    /\ par[p].pc = "list"
    /\ LET s == src_tree[par[p].seq]
           plan == ChronoPlan(SetToList(s.img1.frames))
           annotations == AnnotateFast(<<>>, s.gt.lines, DimensionCache(s.img1),
                                       REVERSE_ID_MAPPINGS, par[p].seq)
       IN  par' = [par EXCEPT ![p].train = plan.train, ![p].valid = plan.valid,
                              ![p].test = plan.test, ![p].ann = annotations,
                              ![p].todo = SetToList(DOMAIN annotations),
                              ![p].pc = "write"]
    /\ UNCHANGED <<out, parFrame>>

\* lines 240-255: one label file is written into train/labels; after the
\* last one, lines 326-329: return when no label was written
ParWrite(p) ==
    /\ par[p].pc = "write"
    /\ IF par[p].todo # <<>>
       THEN LET f == Head(par[p].todo)
            IN  /\ out' = [out EXCEPT !.labels =
                              WriteLabels(@, par[p].game_id, "train", par[p].seq,
                                          (f :> par[p].ann[f]), {})]
                /\ par' = [par EXCEPT ![p].todo = Tail(@)]
       ELSE /\ par' = [par EXCEPT ![p].i = 1,
                                  ![p].pc = IF par[p].ann = <<>> THEN "done"
                                            ELSE "train"]
            /\ out' = out
    /\ UNCHANGED parFrame

\* lines 339-348: one image of train_imgs is copied
ParTrain(p) ==
    /\ par[p].pc = "train"
    /\ IF par[p].i <= Len(par[p].train)
       THEN /\ out' = [out EXCEPT !.images =
                          CopyImage(@, par[p].game_id, "train", par[p].seq,
                                    par[p].train[par[p].i], TRUE)]
            /\ par' = [par EXCEPT ![p].i = @ + 1]
       ELSE /\ par' = [par EXCEPT ![p].i = 1, ![p].pc = "valid_copy"]
            /\ out' = out
    /\ UNCHANGED parFrame

\* the split and the image list of the loop a call is in
ParSplit(c) == IF c.pc \in {"valid_copy", "valid_move"} THEN "valid" ELSE "test"
ParImgs(c) == IF c.pc \in {"valid_copy", "valid_move"} THEN c.valid ELSE c.test

\* lines 359-362 and 383-386: the image of a valid or test frame is copied
ParCopy(p) ==
    /\ par[p].pc \in {"valid_copy", "test_copy"}
    /\ IF par[p].i <= Len(ParImgs(par[p]))
       THEN /\ out' = [out EXCEPT !.images =
                          CopyImage(@, par[p].game_id, ParSplit(par[p]), par[p].seq,
                                    ParImgs(par[p])[par[p].i], TRUE)]
            /\ par' = [par EXCEPT ![p].pc = IF @ = "valid_copy" THEN "valid_move"
                                            ELSE "test_move"]
       ELSE /\ par' = [par EXCEPT ![p].i = 1,
                                  ![p].pc = IF @ = "valid_copy" THEN "test_copy"
                                            ELSE "done"]
            /\ out' = out
    /\ UNCHANGED parFrame

\* lines 364-368 and 388-392: the staged label of the frame, if there is
\* one, is moved
ParMove(p) ==
    /\ par[p].pc \in {"valid_move", "test_move"}
    /\ out' = [out EXCEPT !.labels =
                  MoveLabel(@, par[p].game_id, ParSplit(par[p]), par[p].seq,
                            ParImgs(par[p])[par[p].i], TRUE)]
    /\ par' = [par EXCEPT ![p].i = @ + 1,
                          ![p].pc = IF @ = "valid_move" THEN "valid_copy"
                                    ELSE "test_copy"]
    /\ UNCHANGED parFrame

RECURSIVE CopyAll(_, _, _, _, _)
\* the images after the copies of one loop of process_sequence
CopyAll(images, g, split, snmot, list) ==
    IF list = <<>> THEN images
    ELSE CopyAll(CopyImage(images, g, split, snmot, Head(list), TRUE),
                 g, split, snmot, Tail(list))

RECURSIVE MoveAll(_, _, _, _, _)
\* the labels after the moves of one loop of process_sequence
MoveAll(labels, g, split, snmot, list) ==
    IF list = <<>> THEN labels
    ELSE MoveAll(MoveLabel(labels, g, split, snmot, Head(list), TRUE),
                 g, split, snmot, Tail(list))

\* the output tree after process_sequence has run on sequence s from
\* beginning to end, alone, on the tree it finds
ProcessedAlone(tree, s) ==
    LET src == src_tree[s]
        g == read_game_id(src.gameinfo)
        plan == ChronoPlan(SetToList(src.img1.frames))
        annotations == AnnotateFast(<<>>, src.gt.lines, DimensionCache(src.img1),
                                    REVERSE_ID_MAPPINGS, s)
        set_up == [tree EXCEPT !.dirs = @ \cup SplitDirs(g),
                               !.meta = Put(@, g, s)]
        staged == WriteLabels(tree.labels, g, "train", s, annotations, {})
    IN  IF annotations = <<>> THEN set_up
        ELSE [set_up EXCEPT
                !.images = CopyAll(CopyAll(CopyAll(@, g, "train", s, plan.train),
                                           g, "valid", s, plan.valid),
                                   g, "test", s, plan.test),
                !.labels = MoveAll(MoveAll(staged, g, "valid", s, plan.valid),
                                   g, "test", s, plan.test)]

\* the two sequences processed one after the other, in either order
OneAfterTheOther ==
    {ProcessedAlone(ProcessedAlone([EmptyTree EXCEPT !.dirs = {<<>>}], a), b) :
        <<a, b>> \in {<<"SNMOT-060", "SNMOT-066">>, <<"SNMOT-066", "SNMOT-060">>}}

ParDone == \A p \in DOMAIN par : par[p].pc = "done"

\* C24 (parallel-safety of sequences): when two calls of process_sequence
\* for two sequences of one game-id have both come to their end, however
\* their file operations were interleaved, every images and every labels
\* directory holds the files, with what they hold, that it holds when the two
\* sequences are processed one after the other.
C24_ParallelSafety ==
    (par # <<>> /\ ParDone) =>
        \A t \in OneAfterTheOther :
            /\ out.images = t.images
            /\ out.labels = t.labels
            /\ out.dirs = t.dirs

\* both calls are through; the two sequences have the same game-id, and
\* each has the label of its first valid frame in valid/labels
C24_Witness ==
    /\ par # <<>> /\ ParDone
    /\ par[1].game_id = par[2].game_id
    /\ \A p \in DOMAIN par :
          \E path \in DOMAIN out.labels :
             /\ par[p].valid # <<>>
             /\ path[2] = "valid"
             /\ path[3] = PrefixedLabelName(par[p].seq, par[p].valid[1])
    /\ \A split \in Splits : \E path \in DOMAIN out.images : path[2] = split

(***************************************************************************)
(* read_game_id of both scripts, called on a gameinfo.ini.                 *)
(***************************************************************************)
\* largest number of lines of a gameinfo.ini
MaxInfoLines == 3

\* the lines of a gameinfo.ini, each split at "=": a section header, a
\* gameID line, a gameID line whose value holds a "=", another key
InfoLines ==
    { <<"[Sequence]">>, <<"gameID", "4">>, <<"gameID", "a", "b">>,
      <<"num_tracklets", "26">> }

InfoTexts == UNION { [1..n -> InfoLines] : n \in 0..MaxInfoLines }

\* the files of the model: readable ones, ones that exist and cannot be
\* opened for reading, and the missing file
InfoFiles ==
    { [exists |-> TRUE, readable |-> r, lines |-> t] :
        r \in BOOLEAN, t \in InfoTexts } \cup {NoFile}

GameIdStart ==
    /\ gi_file \in InfoFiles
    /\ gi_pc = "start"
    /\ gi_ret = Returns("")

\* faster_split.py: read_game_id(gameinfo_path)
ReadGameIdFaster ==
    /\ gi_pc = "start"
    /\ gi_pc' = "faster"
    /\ gi_ret' = TryReadGameId(gi_file)
    /\ UNCHANGED gi_file
    /\ UNCHANGED <<splitVars, resolveVars, labelVars, pipeVars, rerunVars, parVars>>

\* split.py: read_game_id(gameinfo_path)
ReadGameIdSplit ==
    /\ gi_pc = "start"
    /\ gi_pc' = "split"
    /\ gi_ret' = ScanGameId(gi_file)
    /\ UNCHANGED gi_file
    /\ UNCHANGED <<splitVars, resolveVars, labelVars, pipeVars, rerunVars, parVars>>

IsGameIdLine(line) == Len(line) >= 2 /\ line[1] = "gameID"

RECURSIVE JoinEq(_)
\* the pieces of a line put together again with "=" between them
JoinEq(pieces) ==
    IF Len(pieces) = 1 THEN pieces[1]
    ELSE pieces[1] \o "=" \o JoinEq(Tail(pieces))

\* what follows "gameID=" on the first gameID line of the file
GameIdValue(file) ==
    LET i == CHOOSE k \in DOMAIN file.lines :
                 /\ IsGameIdLine(file.lines[k])
                 /\ \A m \in 1..(k - 1) : ~IsGameIdLine(file.lines[m])
    IN  JoinEq(Tail(file.lines[i]))

CanBeRead(file) == file.exists /\ file.readable
HasGameIdLine(file) == \E k \in DOMAIN file.lines : IsGameIdLine(file.lines[k])

\* C20 (game-id resolution): read_game_id returns the value of the
\* gameID=<value> line of the metadata file, and returns "unknown" whenever
\* the file has no gameID= line or the file cannot be read.
C20_GameIdResolution ==
    gi_pc \in {"faster", "split"} =>
        gi_ret = Returns(IF CanBeRead(gi_file) /\ HasGameIdLine(gi_file)
                         THEN GameIdValue(gi_file)
                         ELSE "unknown")

(***************************************************************************)
(* Specifications.                                                         *)
(***************************************************************************)
PipeIdle ==
    /\ src_root = FALSE /\ src_tree = <<>> /\ io_faults = 0 /\ ratios = <<>>
    /\ rng_state = OsSeeded /\ out = EmptyTree
    /\ pc = "idle" /\ sequences = <<>> /\ seq_i = 0 /\ snmot_name = ""
    /\ game_id = "" /\ img_i = 0 /\ cnt = ZeroCounters /\ log = <<>>

GameIdIdle == gi_file = NoFile /\ gi_pc = "idle" /\ gi_ret = Returns("")

FirstRun == run_no = 1 /\ first_out = EmptyTree

ParIdle == par = <<>>

SplitIdle ==
    /\ img_list = <<>> /\ rng42 = <<>> /\ split_pc = "idle"
    /\ train_imgs = <<>> /\ valid_imgs = <<>> /\ test_imgs = <<>>

ResolveIdle ==
    /\ ID_MAPPINGS = FASTER_ID_MAPPINGS
    /\ REVERSE_ID_MAPPINGS = BuildReverseIdMappings(FASTER_ID_MAPPINGS)
    /\ res_pc = "idle" /\ res_args = <<>> /\ res_ret = <<>>

LabelIdle ==
    /\ gt_lines = <<>> /\ image_dimensions_cache = <<>>
    /\ annotations_by_frame = <<>> /\ lbl_pc = "idle" /\ imread_calls = <<>>

\* the split planners, each run on a sorted image list
SplitInit == SplitStart /\ ResolveIdle /\ LabelIdle /\ PipeIdle /\ GameIdIdle /\ FirstRun /\ ParIdle
SplitNext == ChronoSplit \/ ShuffleSplit
SpecSplit == SplitInit /\ [][SplitNext]_vars

\* the class resolvers, each run on a table and a lookup
ResolveInit == ResolveStart /\ SplitIdle /\ LabelIdle /\ PipeIdle /\ GameIdIdle /\ FirstRun /\ ParIdle
ResolveNext == LookupFast \/ LookupSlow
SpecResolve == ResolveInit /\ [][ResolveNext]_vars

\* the label generators, each run on a gt.txt and a dimension cache
LabelInit == LabelStart /\ SplitIdle /\ ResolveIdle /\ PipeIdle /\ GameIdIdle /\ FirstRun /\ ParIdle
LabelNext == GenerateFast \/ ConvertSlow
SpecLabel == LabelInit /\ [][LabelNext]_vars

\* faster_split.py main on a source tree, without I/O errors
Init == PipeStart /\ ResolveIdle /\ LabelIdle /\ GameIdIdle /\ FirstRun /\ ParIdle
Next ==
    \/ ModuleLoad
    \/ MainStart \/ MainLoop \/ MainReturn
    \/ PsCheck \/ PsSetup \/ PsList \/ PsGenerate
    \/ PsTrain \/ PsValid \/ PsTest \/ PsFinal
Spec == Init /\ [][Next]_vars

\* split.py main on a source tree
SlowInit == SlowStart /\ LabelIdle /\ GameIdIdle /\ FirstRun /\ ParIdle
SlowNext ==
    \/ SlowMainStart \/ SlowMainLoop \/ SlowMainReturn
    \/ SlowSetup \/ SlowCopy \/ SlowConvert
SpecSlow == SlowInit /\ [][SlowNext]_vars

\* read_game_id of either script, run on a gameinfo.ini
GameIdInit ==
    GameIdStart /\ SplitIdle /\ ResolveIdle /\ LabelIdle /\ PipeIdle /\ FirstRun /\ ParIdle
GameIdNext == ReadGameIdFaster \/ ReadGameIdSplit
SpecGameId == GameIdInit /\ [][GameIdNext]_vars

\* faster_split.py run on a source tree, and run once more over its output
RerunInit == RerunStart /\ ResolveIdle /\ LabelIdle /\ GameIdIdle /\ ParIdle
RerunNext == Next \/ Rerun
SpecRerun == RerunInit /\ [][RerunNext]_vars

\* two calls of faster_split.py process_sequence, interleaved
ParInit == ParStart /\ ResolveIdle /\ LabelIdle /\ GameIdIdle /\ FirstRun
ParNext ==
    \E p \in DOMAIN par :
        \/ ParSetup(p) \/ ParMeta(p) \/ ParList(p) \/ ParWrite(p)
        \/ ParTrain(p) \/ ParCopy(p) \/ ParMove(p)
SpecPar == ParInit /\ [][ParNext]_vars

\* faster_split.py main on a source tree, with failing file operations
FaultInit == FaultStart /\ ResolveIdle /\ LabelIdle /\ GameIdIdle /\ FirstRun /\ ParIdle
SpecFaulty == FaultInit /\ [][Next]_vars

=============================================================================
